---- MODULE Spec2Model ----
(***************************************************************************)
(* ffvoice-engine: the VAD segmenter (src/audio/vad_segmenter.cpp) and the *)
(* frame-rebuffering RNNoise stage (src/audio/rnnoise_processor.cpp).      *)
(*                                                                         *)
(* Samples are int16 values.  Every sample fed to a component carries its  *)
(* arrival index as its value, so order, loss and duplication are visible. *)
(* VAD probabilities are floats in [0,1]; they are written in percent      *)
(* (0.5f is 50), which keeps every comparison of the code exact.           *)
(***************************************************************************)
EXTENDS Integers, Sequences, FiniteSets, TLC

VARIABLES
    \* ---- VADSegmenter (vad_segmenter.h:104-108)
    config_,          \* Config: speech_threshold, min_speech_frames, min_silence_frames, max_segment_samples
    buffer_,          \* std::vector<int16_t> buffer_
    speech_frames_,   \* consecutive speech frames
    silence_frames_,  \* consecutive silence frames
    in_speech_,       \* currently in a speech segment
    \* ---- what the caller of the segmenter observes
    segments,         \* payloads the callback has been invoked with, in order
    accepted,         \* samples of the frames received while Accumulating
    fed,              \* number of samples handed to ProcessFrame so far
    clean,            \* no Reset so far and every call passed a non-null callback
    pat,              \* <<k, j>>: the calls so far are k scenario speech frames, then j scenario silence frames
    run,              \* speech-classified frames in a row since Silence was entered; -1 once a run reached min_speech_frames
    heard,            \* speech-classified frames fed so far
    last,             \* the last call: its name and the number of callbacks it invoked
    calls,            \* number of calls made on the segmenter
    discarded,        \* the samples that were in the buffer when a Reset cleared it
    quiet,            \* silence-classified frames in a row up to the last call; 0 after a segment end, Flush or Reset
    \* ---- RNNoiseProcessor (rnnoise_processor.cpp)
    sample_rate_,     \* int sample_rate_
    channels_,        \* int channels_
    frame_size_,      \* size_t frame_size_
    rebuffer_,        \* std::vector<float> rebuffer_
    rebuffer_pos_,    \* size_t rebuffer_pos_
    states_,          \* std::vector<DenoiseState*> states_; 0 is nullptr
    last_vad_prob_,   \* float last_vad_prob_, as the fraction num/den of percent values; den = 0 is NaN
    enable_vad,       \* config_.enable_vad
    rnnoise_enabled,  \* whether the build defines ENABLE_RNNOISE
    \* ---- what the caller of the stage observes
    samples,          \* the caller's buffer when the last Process call returned
    handed,           \* the frames handed to ProcessFrame since the last Initialize or Reset
    streamed,         \* number of samples handed to Process so far
    epoch,            \* value of streamed at the last Initialize that passed the rate check, or Reset
    status,           \* how the last call on the stage ended
    initialized,      \* Initialize has returned true, and no Initialize has returned false since
    next_handle,      \* handles rnnoise_create has given out
    ops,              \* number of calls made on the stage
    reset_failed,     \* a Reset failed to recreate a model, and no Reset or Initialize has succeeded since
    destroyed,        \* the handles rnnoise_destroy has been called on, in call order
    given,            \* the caller's buffer as it was handed to the last Process call
    last_scores,      \* the scores the model returned for the most recently completed frame; <<>> if none
    call_scores,      \* the scores of the frames the last Process call completed, in frame order
    scored,           \* a frame has been completed since construction or the last Reset
    valid,            \* every Initialize call so far was given one channel or more
    inits,            \* number of Initialize calls made on the stage
    epoch_op,         \* the call that set epoch
    stage_resets,     \* number of Reset calls on the stage since its last call that was not a Reset
    resets            \* number of Reset calls on the segmenter since its last call that was not a Reset

VARIABLES
    \* ---- AudioProcessorChain
    processors_,      \* the kinds of the stages added, in insertion order
    chain_status,     \* how the last call on the chain ended
    chain_calls,      \* the stages the last Initialize or Process of the chain called, in call order
    chain_in,         \* the caller's buffer as it was handed to the chain's last Process
    chain_out,        \* the caller's buffer when the chain's last Process returned
    chain_ops,        \* number of Initialize and Process calls made on the chain
    \* ---- record_audio and its capture callback
    rec_state,        \* "setup", "recording" or "failed"
    has_processing,   \* a processing option was given on the command line
    format,           \* "wav" or "flac"
    process_buffer,   \* process_buffer.size()
    file_samples,     \* number of samples handed to the writer's WriteSamples
    total_samples,    \* total_samples
    callbacks,        \* number of capture callbacks run
    cb_effects,       \* what the last capture callback did on the capture thread
    \* ---- RingBuffer, one producer thread and one consumer thread
    capacity_,        \* capacity()
    slots_,           \* the element storage; an element is written and read in two halves
    write_pos_,       \* number of elements published by the producer
    read_pos_,        \* number of elements released by the consumer
    p_pc,             \* the producer's position inside push, 0 when outside
    p_value,          \* the value the producer is pushing
    c_pc,             \* the consumer's position inside pop, 0 when outside
    c_out,            \* the consumer's output parameter
    pushed,           \* the values of the pushes that returned true, in order
    popped,           \* the values of the pops that returned true, in order
    push_result,      \* what the last push returned
    pop_result,       \* what the last pop returned
    drained           \* the producer has finished and a pop after that returned false

chainVars == <<processors_, chain_status, chain_calls, chain_in, chain_out, chain_ops>>

recVars == <<rec_state, has_processing, format, process_buffer, file_samples, total_samples,
             callbacks, cb_effects>>

ringVars == <<capacity_, slots_, write_pos_, read_pos_, p_pc, p_value, c_pc, c_out,
              pushed, popped, push_result, pop_result, drained>>

extVars == <<chainVars, recVars, ringVars>>

segVars == <<config_, buffer_, speech_frames_, silence_frames_, in_speech_,
             segments, accepted, fed, clean, pat, run, heard, last, calls, discarded,
             quiet, resets>>

rnVars == <<sample_rate_, channels_, frame_size_, rebuffer_, rebuffer_pos_, states_,
            last_vad_prob_, enable_vad, rnnoise_enabled,
            samples, handed, streamed, epoch, status, initialized, next_handle, ops,
            reset_failed, destroyed, given, last_scores, scored, valid, inits, epoch_op,
            stage_resets, call_scores>>

vars == <<segVars, rnVars, extVars>>

----------------------------------------------------------------------------
(* Bounds of the model *)

MaxCalls == 4          \* calls made on one segmenter
MaxFrameLen == 2       \* longest frame handed to ProcessFrame
MaxMinFrames == 2      \* largest min_speech_frames / min_silence_frames
MaxSegmentCap == 3     \* largest max_segment_samples
MaxScenarioCalls == 15 \* frames fed in the speech-then-silence scenario
FrameSize == 3         \* samples per channel in one RNNoise frame (480 in the code)
MaxChannels == 2       \* largest channel count handed to Initialize
MaxCapture == 4        \* longest buffer handed to Process
MaxOps == 4            \* calls made on one stage
MaxInits == MaxOps \div 2   \* Initialize calls made on one stage: half of the calls at most
MaxPipelineCalls == 7  \* calls made on a segmenter and a stage held side by side

(* Program constants *)

DefaultSpeechThreshold == 50        \* Config::speech_threshold = 0.5f
DefaultMaxSegmentSamples == 480000  \* Config::max_segment_samples
ScenarioFrameSamples == 480         \* GenerateSamples(480)
ScenarioMinFrames == 3              \* min_speech_frames = min_silence_frames = 3
ScenarioSpeechProb == 90            \* 0.9f
ScenarioSilenceProb == 10           \* 0.1f
ScenarioSpeechFrames == 10
ScenarioSilenceFrames == 5

----------------------------------------------------------------------------
(* Helpers *)

\* the samples of a frame of n samples arriving after `from` samples
Frame(from, n) == [i \in 1..n |-> from + i]

RECURSIVE Flatten(_)
Flatten(ss) == IF ss = <<>> THEN <<>> ELSE Head(ss) \o Flatten(Tail(ss))

Config(th, msp, msl, cap) ==
    [speech_threshold |-> th, min_speech_frames |-> msp,
     min_silence_frames |-> msl, max_segment_samples |-> cap]

Configs ==
    { Config(DefaultSpeechThreshold, msp, msl, cap) :
        msp \in 1..MaxMinFrames, msl \in {1, MaxMinFrames}, cap \in {1, MaxSegmentCap} }

ScenarioConfig ==
    Config(DefaultSpeechThreshold, ScenarioMinFrames, ScenarioMinFrames,
           DefaultMaxSegmentSamples)

\* probabilities below, at and above the threshold
VadProbs == { DefaultSpeechThreshold - 40, DefaultSpeechThreshold, DefaultSpeechThreshold + 40 }

----------------------------------------------------------------------------
(* VADSegmenter::ProcessFrame, vad_segmenter.cpp:23-67 *)

\* a classification that takes the threshold itself for silence
IsSpeech_Strict(vad_prob) == vad_prob > config_.speech_threshold

\* bool is_speech = vad_prob >= config_.speech_threshold;
IsSpeech(vad_prob) == vad_prob >= config_.speech_threshold

\* a silence frame that leaves the run of speech frames standing
SpeechFramesAfter_NoRestart(is_speech) == IF is_speech THEN speech_frames_ + 1 ELSE speech_frames_

\* speech_frames_++ (speech) / speech_frames_ = 0 (silence)
SpeechFramesAfter(is_speech) == IF is_speech THEN speech_frames_ + 1 ELSE 0

\* a silence counter that a speech frame does not restart
SilenceFramesAfter_NoRestart(is_speech) == IF is_speech THEN silence_frames_ ELSE silence_frames_ + 1

\* silence_frames_ = 0 (speech) / silence_frames_++ (silence)
SilenceFramesAfter(is_speech) == IF is_speech THEN 0 ELSE silence_frames_ + 1

\* a flip that waits for one speech frame more than configured
InSpeechAfter_OneLate(is_speech, sf) ==
    IF is_speech /\ ~in_speech_ /\ sf >= config_.min_speech_frames + 1
    THEN TRUE ELSE in_speech_

\* if (!in_speech_ && speech_frames_ >= config_.min_speech_frames) in_speech_ = true;
InSpeechAfter(is_speech, sf) ==
    IF is_speech /\ ~in_speech_ /\ sf >= config_.min_speech_frames
    THEN TRUE ELSE in_speech_

\* if (in_speech_) buffer_.insert(buffer_.end(), samples, samples + num_samples);
BufferAfterInsert(in_sp, frame) == IF in_sp THEN buffer_ \o frame ELSE buffer_

\* a cap that is only hit once it is exceeded
MaxLengthReached_Strict(buf) == Len(buf) > config_.max_segment_samples

\* bool max_length_reached = buffer_.size() >= config_.max_segment_samples;
MaxLengthReached(buf) == Len(buf) >= config_.max_segment_samples

\* one silence frame fewer than configured
SilenceDetected_Early(sl) == sl + 1 >= config_.min_silence_frames

\* one more silence frame than configured
SilenceDetected_Late(sl) == sl > config_.min_silence_frames

\* bool silence_detected = silence_frames_ >= config_.min_silence_frames;
SilenceDetected(sl) == sl >= config_.min_silence_frames

\* a segment end that calls back once for each condition that holds
SegmentsAfterEmit_Twice(on_segment, buf) ==
    IF on_segment /\ buf # <<>> THEN Append(Append(segments, buf), buf) ELSE segments

\* the callback given the buffer as it was before this frame was inserted
SegmentsAfterEmit_Stale(on_segment, buf) ==
    IF on_segment /\ buf # <<>> THEN Append(segments, buffer_) ELSE segments

\* if (on_segment && !buffer_.empty()) on_segment(buffer_.data(), buffer_.size());
SegmentsAfterEmit(on_segment, buf) ==
    IF on_segment /\ buf # <<>> THEN Append(segments, buf) ELSE segments

\* the call history still matches the scenario: speech frames first, then silence frames
PatAfterFrame(num_samples, vad_prob, on_segment) ==
    IF pat[1] >= 0 /\ num_samples = ScenarioFrameSamples /\ on_segment
       /\ vad_prob = ScenarioSpeechProb /\ pat[2] = 0
    THEN <<pat[1] + 1, 0>>
    ELSE IF pat[1] >= 0 /\ num_samples = ScenarioFrameSamples /\ on_segment
            /\ vad_prob = ScenarioSilenceProb
         THEN <<pat[1], pat[2] + 1>>
         ELSE <<-1, -1>>

\* the debounce window: it restarts when the segmenter returns to Silence, a
\* silence-classified frame ends a run, and it closes when a run reaches
\* min_speech_frames
RunAfterFrame(vad_prob, done) ==
    IF done THEN 0
    ELSE IF run < 0 THEN -1
    ELSE IF vad_prob < config_.speech_threshold THEN 0
    ELSE IF run + 1 >= config_.min_speech_frames THEN -1
    ELSE run + 1

\* a segment end that leaves the run of speech frames standing
SpeechFramesAfterEmit_Kept(sf) == sf

\* speech_frames_ = 0;   (after the callback)
SpeechFramesAfterEmit(sf) == 0

ProcessFrame(num_samples, vad_prob, on_segment) ==
    LET is_speech == IsSpeech(vad_prob)
        sf        == SpeechFramesAfter(is_speech)
        sl        == SilenceFramesAfter(is_speech)
        in_sp     == InSpeechAfter(is_speech, sf)
        frame     == Frame(fed, num_samples)
        buf       == BufferAfterInsert(in_sp, frame)
        done      == in_sp /\ (MaxLengthReached(buf) \/ SilenceDetected(sl))
    IN  /\ segments' = IF done THEN SegmentsAfterEmit(on_segment, buf) ELSE segments
        /\ buffer_' = IF done THEN <<>> ELSE buf
        /\ in_speech_' = IF done THEN FALSE ELSE in_sp
        /\ speech_frames_' = IF done THEN SpeechFramesAfterEmit(sf) ELSE sf
        /\ silence_frames_' = IF done THEN 0 ELSE sl
        /\ accepted' = IF in_sp THEN accepted \o frame ELSE accepted
        /\ fed' = fed + num_samples
        /\ clean' = (clean /\ on_segment)
        /\ pat' = PatAfterFrame(num_samples, vad_prob, on_segment)
        /\ run' = RunAfterFrame(vad_prob, done)
        /\ quiet' = IF done \/ vad_prob >= config_.speech_threshold THEN 0 ELSE quiet + 1
        /\ heard' = IF vad_prob >= config_.speech_threshold THEN heard + 1 ELSE heard
        /\ last' = [op |-> "ProcessFrame", ncb |-> Len(segments') - Len(segments)]
        /\ calls' = calls + 1
        /\ resets' = 0
        /\ UNCHANGED <<config_, discarded>>

(* VADSegmenter::Flush, vad_segmenter.cpp:69-85 *)

\* a Flush that calls back without looking at buffer_.empty()
SegmentsAfterFlush_Always(on_segment) ==
    IF on_segment THEN Append(segments, buffer_) ELSE segments

\* if (on_segment) on_segment(buffer_.data(), buffer_.size());   (inside if (!buffer_.empty()))
SegmentsAfterFlush(on_segment) ==
    IF buffer_ # <<>> /\ on_segment THEN Append(segments, buffer_) ELSE segments

\* a Flush that leaves the buffer as it is
BufferAfterFlush_Kept == buffer_

\* buffer_.clear();   (inside if (!buffer_.empty()))
BufferAfterFlush == <<>>

Flush(on_segment) ==
    /\ segments' = SegmentsAfterFlush(on_segment)
    /\ buffer_' = BufferAfterFlush
    /\ in_speech_' = FALSE
    /\ speech_frames_' = 0
    /\ silence_frames_' = 0
    /\ clean' = (clean /\ on_segment)
    /\ pat' = <<-1, -1>>
    /\ run' = 0
    /\ quiet' = 0
    /\ last' = [op |-> "Flush", ncb |-> Len(segments') - Len(segments)]
    /\ calls' = calls + 1
    /\ resets' = 0
    /\ UNCHANGED <<config_, accepted, fed, heard, discarded>>

(* VADSegmenter::Reset, vad_segmenter.cpp:87-93 *)

\* a Reset that clears the flag and the counters and keeps the buffer
Reset_KeepsBuffer ==
    /\ buffer_' = buffer_
    /\ in_speech_' = FALSE
    /\ speech_frames_' = 0
    /\ silence_frames_' = 0
    /\ discarded' = discarded \cup {buffer_[i] : i \in 1..Len(buffer_)}
    /\ clean' = FALSE
    /\ pat' = <<-1, -1>>
    /\ run' = 0
    /\ quiet' = 0
    /\ last' = [op |-> "Reset", ncb |-> 0]
    /\ calls' = calls + 1
    /\ resets' = resets + 1
    /\ UNCHANGED <<config_, segments, accepted, fed, heard>>

Reset ==
    /\ buffer_' = <<>>
    /\ in_speech_' = FALSE
    /\ speech_frames_' = 0
    /\ silence_frames_' = 0
    /\ discarded' = discarded \cup {buffer_[i] : i \in 1..Len(buffer_)}
    /\ clean' = FALSE
    /\ pat' = <<-1, -1>>
    /\ run' = 0
    /\ quiet' = 0
    /\ last' = [op |-> "Reset", ncb |-> 0]
    /\ calls' = calls + 1
    /\ resets' = resets + 1
    /\ UNCHANGED <<config_, segments, accepted, fed, heard>>

(* VADSegmenter::GetBufferSize / IsInSpeech, vad_segmenter.h:95-101 *)

GetBufferSize == Len(buffer_)
IsInSpeech == in_speech_

----------------------------------------------------------------------------
(* RNNoiseProcessor, rnnoise_processor.cpp (built with ENABLE_RNNOISE)      *)
(*                                                                         *)
(* A float is written as its numerator over 32768, so samples[i] / 32768.0f *)
(* is exact.  The sample at stream position k has the value 4k.            *)

Min2(a, b) == IF a <= b THEN a ELSE b

\* the int16 sample at position k (from 1) of all that was handed to Process
Sample(k) == 4 * k

\* the caller's buffer: num_samples samples following the first `from`
Capture(from, num_samples) == [i \in 1..num_samples |-> Sample(from + i)]

\* float_buffer_[i] = samples[i] / 32768.0f;
ToFloat(x) == x

\* std::clamp(float_buffer_[i], -1.0f, 1.0f)
Clamp(f) == IF f < -32768 THEN -32768 ELSE IF f > 32768 THEN 32768 ELSE f

\* static_cast<int16_t>(clamped * 32767.0f): the product, truncated toward zero
ToInt16(f) ==
    LET scaled == Clamp(f) * 32767
    IN  IF scaled >= 0 THEN scaled \div 32768 ELSE -((-scaled) \div 32768)

\* rnnoise_process_frame on one sample: the library's output, told apart from
\* its input by an offset of 0.25
Denoise(f) == f + 8192

\* a rate check that lets 8 kHz through
SupportedRate_With8k(sample_rate) == sample_rate \in {48000, 44100, 24000, 8000}

\* if (sample_rate != 48000 && sample_rate != 44100 && sample_rate != 24000) return false;
SupportedRate(sample_rate) == sample_rate \in {48000, 44100, 24000}

\* std::vector::resize(n, fill)
Resize(v, n, fill) == [i \in 1..n |-> IF i <= Len(v) THEN v[i] ELSE fill]

\* states_.resize(channels_); then states_[ch] = rnnoise_create(nullptr) for
\* ch = 0, 1, ... up to the first creation that fails (fail_at; channels: none)
StatesAfterCreate(channels, fail_at) ==
    [i \in 1..channels |->
        IF i - 1 < fail_at THEN next_handle + i
        ELSE IF i - 1 = fail_at THEN 0
        ELSE Resize(states_, channels, 0)[i]]

(* RNNoiseProcessor::Initialize, rnnoise_processor.cpp:33-81 *)
Initialize(sample_rate, channels, fail_at) ==
    /\ sample_rate_' = sample_rate
    /\ channels_' = channels
    /\ IF ~rnnoise_enabled
       THEN \* #else: LOG_WARNING(...); return true;
            /\ status' = "true"
            /\ initialized' = TRUE
            /\ UNCHANGED <<frame_size_, rebuffer_, rebuffer_pos_, states_, next_handle,
                           epoch, handed, epoch_op>>
       ELSE IF ~SupportedRate(sample_rate)
       THEN /\ status' = "false"
            /\ initialized' = FALSE
            /\ UNCHANGED <<frame_size_, rebuffer_, rebuffer_pos_, states_, next_handle,
                           epoch, handed, epoch_op>>
       ELSE IF channels < 0
       THEN \* rebuffer_.resize(frame_size_ * channels_) asks for more than
            \* max_size() elements: std::length_error leaves Initialize
            /\ frame_size_' = FrameSize
            /\ status' = "threw"
            /\ initialized' = FALSE
            /\ UNCHANGED <<rebuffer_, rebuffer_pos_, states_, next_handle, epoch, handed,
                           epoch_op>>
       ELSE /\ frame_size_' = FrameSize
            /\ rebuffer_' = Resize(rebuffer_, FrameSize * channels, 0)
            /\ rebuffer_pos_' = 0
            /\ states_' = StatesAfterCreate(channels, fail_at)
            /\ next_handle' = next_handle + Min2(fail_at, channels)
            /\ status' = IF fail_at < channels THEN "false" ELSE "true"
            /\ initialized' = (fail_at >= channels)
            /\ epoch' = streamed
            /\ epoch_op' = "Initialize"
            /\ handed' = <<>>
    /\ reset_failed' = (reset_failed /\ status' # "true")
    /\ ops' = ops + 1
    /\ inits' = inits + 1
    /\ valid' = (valid /\ channels >= 1)
    /\ stage_resets' = 0
    /\ call_scores' = <<>>
    /\ UNCHANGED <<samples, streamed, destroyed, given, last_scores, scored, last_vad_prob_,
                   enable_vad, rnnoise_enabled>>

(* RNNoiseProcessor::ProcessFrame, rnnoise_processor.cpp:144-163 *)

\* states_[ch] is a live handle for every channel the loop visits
StatesUsable ==
    \A ch \in 0..(channels_ - 1) : ch < Len(states_) /\ states_[ch + 1] # 0

\* a write-back that lays the channels out one after the other instead of interleaved
ProcessChannels_Planar(frame, ch) ==
    [k \in 1..Len(frame) |->
        Denoise(frame[((k - 1) % frame_size_) * channels_ + ((k - 1) \div frame_size_) + 1])]

RECURSIVE ProcessChannels(_, _)
\* the frame after channels ch, ch+1, ... have been extracted, denoised and written back
ProcessChannels(frame, ch) ==
    IF ch >= channels_ THEN frame
    ELSE LET channel_buffer == [i \in 1..frame_size_ |-> frame[(i - 1) * channels_ + ch + 1]]
             denoised == [i \in 1..frame_size_ |-> Denoise(channel_buffer[i])]
             written == [k \in 1..Len(frame) |->
                            IF (k - 1) % channels_ = ch /\ (k - 1) \div channels_ < frame_size_
                            THEN denoised[(k - 1) \div channels_ + 1]
                            ELSE frame[k]]
         IN  ProcessChannels(written, ch + 1)

RECURSIVE TotalVadProb(_, _)
\* total_vad_prob += vad_prob, over the channels ch, ch-1, ..., 1
TotalVadProb(scores, ch) == IF ch <= 0 THEN 0 ELSE scores[ch] + TotalVadProb(scores, ch - 1)

\* the total of the channels' scores, not divided by the channel count
VadAfterFrame_Total(scores, vad) ==
    IF enable_vad THEN [num |-> TotalVadProb(scores, channels_), den |-> 1]
    ELSE vad

\* a frame that sets the probability whether VAD is enabled or not
VadAfterFrame_Always(scores, vad) ==
    [num |-> TotalVadProb(scores, channels_), den |-> channels_]

\* a probability that only rises: a frame scoring lower than the value held keeps it
VadAfterFrame_Peak(scores, vad) ==
    IF enable_vad /\ TotalVadProb(scores, channels_) * vad.den >= vad.num * channels_
    THEN [num |-> TotalVadProb(scores, channels_), den |-> channels_]
    ELSE vad

\* if (config_.enable_vad) last_vad_prob_ = total_vad_prob / channels_;
VadAfterFrame(scores, vad) ==
    IF enable_vad THEN [num |-> TotalVadProb(scores, channels_), den |-> channels_]
    ELSE vad

(* RNNoiseProcessor::Process, rnnoise_processor.cpp:83-142 *)

\* size_t frame_total_size = frame_size_ * channels_;
FrameTotalSize == frame_size_ * channels_

\* if (frame_size_ > 0 && frame_total_size / frame_size_ != static_cast<size_t>(channels_)):
\* the size_t product wraps exactly when channels_ is negative
OverflowDetected == frame_size_ > 0 /\ channels_ < 0

\* std::min(remaining_in_rebuffer, remaining_in_input); frame_total_size - rebuffer_pos_
\* is a size_t and wraps to a huge value when the cursor is beyond the frame
ToCopy(pos, remaining_in_input) ==
    IF pos > FrameTotalSize THEN remaining_in_input
    ELSE Min2(FrameTotalSize - pos, remaining_in_input)

\* std::copy(float_buffer_.begin() + input_pos, ... + to_copy, rebuffer_.begin() + rebuffer_pos_)
CopyIn(rebuffer, pos, float_buffer, input_pos, to_copy) ==
    [i \in 1..Len(rebuffer) |->
        IF i > pos /\ i <= pos + to_copy
        THEN float_buffer[input_pos + (i - pos)]
        ELSE rebuffer[i]]

\* for (i < frame_total_size) if (output_start + i < num_samples)
\*     float_buffer_[output_start + i] = rebuffer_[i];
CopyBack(float_buffer, output_start, rebuffer, num_samples) ==
    [i \in 1..Len(float_buffer) |->
        IF i - 1 >= output_start /\ (i - 1) - output_start < FrameTotalSize /\ i - 1 < num_samples
        THEN rebuffer[i - output_start]
        ELSE float_buffer[i]]

\* a check that is made after the first sample has been copied
Aborted_AfterCopy(s) ==
    [s EXCEPT !.status = "aborted", !.pos = s.pos + 1,
              !.rebuffer = CopyIn(s.rebuffer, s.pos, s.float_buffer, s.input_pos, 1)]

\* LOG_ERROR(...); return;  -- nothing has been copied yet
Aborted(s) == [s EXCEPT !.status = "aborted"]

RECURSIVE Rebuffer(_, _, _)
\* while (input_pos < num_samples) { ... }, from the loop state s; scores[k] is
\* what rnnoise_process_frame returns for the channels of the k-th frame the
\* call completes
Rebuffer(num_samples, scores, s) ==
    IF s.status # "ok" \/ s.input_pos >= num_samples THEN s
    ELSE LET remaining_in_input == num_samples - s.input_pos
             to_copy == ToCopy(s.pos, remaining_in_input)
             pos == s.pos + to_copy
             input_pos == s.input_pos + to_copy
         IN  IF OverflowDetected THEN Aborted(s)
             ELSE IF FrameTotalSize = 0 /\ to_copy = 0
                  THEN \* nothing is consumed and ProcessFrame has nothing to do: the loop spins
                       [s EXCEPT !.status = "hang"]
             ELSE IF pos > Len(s.rebuffer)
                  THEN \* std::copy writes past rebuffer_.end()
                       [s EXCEPT !.status = "ub"]
             ELSE LET copied == CopyIn(s.rebuffer, s.pos, s.float_buffer, s.input_pos, to_copy)
                  IN  IF pos >= FrameTotalSize
                      THEN IF ~StatesUsable
                           THEN \* rnnoise_process_frame on a null or missing DenoiseState
                                [s EXCEPT !.status = "bad handle"]
                           ELSE LET processed == ProcessChannels(copied, 0)
                                IN  Rebuffer(num_samples, scores,
                                       [input_pos |-> input_pos,
                                        float_buffer |-> CopyBack(s.float_buffer, input_pos - to_copy,
                                                                  processed, num_samples),
                                        rebuffer |-> processed,
                                        pos |-> 0,
                                        handed |-> Append(s.handed, SubSeq(copied, 1, FrameTotalSize)),
                                        vad |-> VadAfterFrame(scores[Len(s.frames) + 1], s.vad),
                                        scores |-> scores[Len(s.frames) + 1],
                                        frames |-> Append(s.frames, scores[Len(s.frames) + 1]),
                                        status |-> "ok"])
                      ELSE Rebuffer(num_samples, scores,
                                    [s EXCEPT !.input_pos = input_pos, !.rebuffer = copied, !.pos = pos])

\* a passthrough that runs the samples through the two conversions
PassthroughSamples_Converted(input) == [i \in 1..Len(input) |-> ToInt16(ToFloat(input[i]))]

\* #else: (void)samples; (void)num_samples;   -- the caller's buffer is not written
PassthroughSamples(input) == input

\* Process on the caller's buffer `input`
ProcessBuffer(input, scores) ==
    LET num_samples == Len(input)
        start == [input_pos |-> 0,
                  float_buffer |-> [i \in 1..num_samples |-> ToFloat(input[i])],
                  rebuffer |-> rebuffer_,
                  pos |-> rebuffer_pos_,
                  handed |-> handed,
                  vad |-> last_vad_prob_,
                  scores |-> last_scores,
                  frames |-> <<>>,
                  status |-> "ok"]
    IN  /\ IF num_samples = 0
           THEN /\ samples' = <<>>
                /\ status' = "ok"
                /\ call_scores' = <<>>
                /\ UNCHANGED <<rebuffer_, rebuffer_pos_, handed, last_vad_prob_, last_scores,
                               scored>>
           ELSE IF ~rnnoise_enabled
           THEN /\ samples' = PassthroughSamples(input)
                /\ status' = "ok"
                /\ call_scores' = <<>>
                /\ UNCHANGED <<rebuffer_, rebuffer_pos_, handed, last_vad_prob_, last_scores,
                               scored>>
           ELSE \E end \in {Rebuffer(num_samples, scores, start)} :
                /\ status' = end.status
                /\ samples' = IF end.status = "ok"
                              THEN [i \in 1..num_samples |-> ToInt16(end.float_buffer[i])]
                              ELSE input
                /\ rebuffer_' = end.rebuffer
                /\ rebuffer_pos_' = end.pos
                /\ handed' = end.handed
                /\ last_vad_prob_' = end.vad
                /\ last_scores' = end.scores
                /\ call_scores' = end.frames
                /\ scored' = (scored \/ Len(end.handed) > Len(handed))
        /\ given' = input
        /\ stage_resets' = 0
        /\ streamed' = streamed + num_samples
        /\ ops' = ops + 1
        /\ UNCHANGED <<sample_rate_, channels_, frame_size_, states_, initialized,
                       next_handle, epoch, reset_failed, destroyed, enable_vad, inits,
                       epoch_op, rnnoise_enabled, valid>>

\* Process on the next num_samples samples of the stream
Process(num_samples, scores) == ProcessBuffer(Capture(streamed, num_samples), scores)

(* RNNoiseProcessor::Reset, rnnoise_processor.cpp:175-208 *)

\* the non-null handles of a states_ vector
Live(states) == SelectSeq(states, LAMBDA h : h # 0)

\* for (auto* state : states_) if (state) rnnoise_destroy(state);
DestroyHeld == Live(states_)

\* a Reset that recreates the models only when it found none to destroy
Recreated_EveryOtherReset(fail_at) ==
    IF DestroyHeld # <<>> THEN <<>>
    ELSE [i \in 1..Min2(fail_at, channels_) |-> next_handle + i]

\* the handles rnnoise_create returns in the loop, up to the first failure
Recreated(fail_at) == [i \in 1..Min2(fail_at, channels_) |-> next_handle + i]

\* a failure path that clears states_ without destroying what was recreated
DestroyedAfterReset_NoCleanup(fail_at) ==
    destroyed \o DestroyHeld

\* the old handles are destroyed; on a failed creation, for (i < ch)
\* rnnoise_destroy(states_[i]) destroys the recreated ones as well
DestroyedAfterReset(fail_at) ==
    destroyed \o DestroyHeld \o (IF fail_at < channels_ THEN Recreated(fail_at) ELSE <<>>)

\* a Reset that leaves the cursor where it is
CursorAfterReset_Kept == rebuffer_pos_

\* rebuffer_pos_ = 0;
CursorAfterReset == 0

\* last_vad_prob_ = 0.0f;
VadAfterReset == [num |-> 0, den |-> 1]

StageReset(fail_at) ==
    /\ rebuffer_pos_' = CursorAfterReset
    /\ last_vad_prob_' = VadAfterReset
    /\ rebuffer_' = [i \in 1..Len(rebuffer_) |-> 0]
    /\ IF ~rnnoise_enabled
       THEN /\ status' = "reset ok"
            /\ UNCHANGED <<states_, destroyed, next_handle>>
       ELSE IF channels_ < 0
       THEN \* states_.resize(channels_) asks for more than max_size() elements
            /\ states_' = <<>>
            /\ destroyed' = destroyed \o DestroyHeld
            /\ status' = "threw"
            /\ UNCHANGED next_handle
       ELSE /\ states_' = IF fail_at < channels_ THEN <<>> ELSE Recreated(fail_at)
            /\ destroyed' = DestroyedAfterReset(fail_at)
            /\ next_handle' = next_handle + Min2(fail_at, channels_)
            /\ status' = IF fail_at < channels_ THEN "reset failed" ELSE "reset ok"
    /\ reset_failed' = (status' = "reset failed" \/ (reset_failed /\ status' # "reset ok"))
    /\ epoch' = streamed
    /\ epoch_op' = "Reset"
    /\ handed' = <<>>
    /\ scored' = FALSE
    /\ stage_resets' = stage_resets + 1
    /\ call_scores' = <<>>
    /\ ops' = ops + 1
    /\ UNCHANGED <<sample_rate_, channels_, frame_size_, samples, streamed, initialized,
                   enable_vad, rnnoise_enabled, given, inits, last_scores, valid>>

\* RNNoiseProcessor::~RNNoiseProcessor, rnnoise_processor.cpp:20-31
Destroy ==
    /\ destroyed' = (IF rnnoise_enabled THEN destroyed \o DestroyHeld ELSE destroyed)
    /\ states_' = (IF rnnoise_enabled THEN <<>> ELSE states_)
    /\ status' = "destroyed"
    /\ call_scores' = <<>>
    /\ ops' = ops + 1
    /\ UNCHANGED <<sample_rate_, channels_, frame_size_, rebuffer_, rebuffer_pos_,
                   last_vad_prob_, enable_vad, rnnoise_enabled, samples, handed, streamed,
                   epoch, initialized, next_handle, reset_failed, given, last_scores, scored,
                   inits, epoch_op, stage_resets, valid>>

\* whether the build defines ENABLE_RNNOISE
Build(enabled) == rnnoise_enabled = enabled

\* RNNoiseProcessor::RNNoiseProcessor(config): nothing allocated, cursor at 0
StageNew(config) ==
    /\ enable_vad = config.enable_vad
    /\ last_vad_prob_ = [num |-> 0, den |-> 1]
    /\ given = <<>>
    /\ last_scores = <<>>
    /\ call_scores = <<>>
    /\ scored = FALSE
    /\ valid = TRUE
    /\ inits = 0
    /\ epoch_op = "new"
    /\ stage_resets = 0
    /\ sample_rate_ = 0
    /\ channels_ = 0
    /\ frame_size_ = 0
    /\ rebuffer_ = <<>>
    /\ rebuffer_pos_ = 0
    /\ states_ = <<>>
    /\ samples = <<>>
    /\ handed = <<>>
    /\ streamed = 0
    /\ epoch = 0
    /\ status = "new"
    /\ initialized = FALSE
    /\ next_handle = 0
    /\ ops = 0
    /\ reset_failed = FALSE
    /\ destroyed = <<>>

----------------------------------------------------------------------------
(* The segmenter driven by any caller *)

\* VADSegmenter::VADSegmenter(const Config&), vad_segmenter.cpp:18-21
SegmenterNew(cfg) ==
    /\ config_ = cfg
    /\ buffer_ = <<>>
    /\ speech_frames_ = 0
    /\ silence_frames_ = 0
    /\ in_speech_ = FALSE
    /\ segments = <<>>
    /\ accepted = <<>>
    /\ fed = 0
    /\ clean = TRUE
    /\ pat = <<0, 0>>
    /\ run = 0
    /\ heard = 0
    /\ last = [op |-> "new", ncb |-> 0]
    /\ calls = 0
    /\ discarded = {}
    /\ quiet = 0
    /\ resets = 0

\* AudioProcessorChain::AudioProcessorChain(): no stage added
ChainNew ==
    /\ processors_ = <<>>
    /\ chain_status = "new"
    /\ chain_calls = <<>>
    /\ chain_in = <<>>
    /\ chain_out = <<>>
    /\ chain_ops = 0

\* record_audio before its options are read
RecorderNew ==
    /\ rec_state = "setup"
    /\ has_processing = FALSE
    /\ format = "wav"
    /\ process_buffer = 0
    /\ file_samples = 0
    /\ total_samples = 0
    /\ callbacks = 0
    /\ cb_effects = {}

\* an element nobody has written
NoElement == [lo |-> 0, hi |-> 0]

\* RingBuffer<T>::RingBuffer(capacity): empty, no thread inside push or pop
RingNew(capacity) ==
    /\ capacity_ = capacity
    /\ slots_ = [i \in 0..(capacity - 1) |-> NoElement]
    /\ write_pos_ = 0
    /\ read_pos_ = 0
    /\ p_pc = 0
    /\ p_value = 0
    /\ c_pc = 0
    /\ c_out = NoElement
    /\ pushed = <<>>
    /\ popped = <<>>
    /\ push_result = "none"
    /\ pop_result = "none"
    /\ drained = FALSE

\* a chain, a recorder and a ring buffer nobody calls
IdleCollaborators == ChainNew /\ RecorderNew /\ RingNew(1)

\* the RNNoiseConfig of a stage nobody calls
IdleStage == StageNew([enable_vad |-> FALSE]) /\ Build(TRUE)

Init == (\E cfg \in Configs : SegmenterNew(cfg)) /\ IdleStage /\ IdleCollaborators

CallProcessFrame ==
    /\ calls < MaxCalls
    /\ \E n \in 0..MaxFrameLen, p \in VadProbs, cb \in BOOLEAN : ProcessFrame(n, p, cb)
    /\ UNCHANGED <<rnVars, extVars>>

CallFlush ==
    /\ calls < MaxCalls
    /\ \E cb \in BOOLEAN : Flush(cb)
    /\ UNCHANGED <<rnVars, extVars>>

CallReset ==
    /\ calls < MaxCalls
    /\ Reset
    /\ UNCHANGED <<rnVars, extVars>>

Next == CallProcessFrame \/ CallFlush \/ CallReset

Spec == Init /\ [][Next]_vars

(* The scenario of VADSegmenterTest.ProcessFrame_SpeechThenSilenceTriggers:  *)
(* frames of 480 samples at probability 0.9 or 0.1, in any order.           *)

InitScenario == SegmenterNew(ScenarioConfig) /\ IdleStage /\ IdleCollaborators

ScenarioFrame ==
    /\ calls < MaxScenarioCalls
    /\ \E p \in {ScenarioSpeechProb, ScenarioSilenceProb} :
          ProcessFrame(ScenarioFrameSamples, p, TRUE)
    /\ UNCHANGED <<rnVars, extVars>>

NextScenario == ScenarioFrame

SpecScenario == InitScenario /\ [][NextScenario]_vars

(* VADSegmenterTest.EdgeCase_BoundaryThreshold: frames whose probability is  *)
(* the threshold itself, or just below it.                                  *)

BoundaryProbs == { DefaultSpeechThreshold - 1, DefaultSpeechThreshold }

CallBoundaryFrame ==
    /\ calls < MaxCalls
    /\ \E n \in 0..MaxFrameLen, p \in BoundaryProbs, cb \in BOOLEAN : ProcessFrame(n, p, cb)
    /\ UNCHANGED <<rnVars, extVars>>

NextBoundary == CallBoundaryFrame

SpecBoundary == Init /\ [][NextBoundary]_vars

----------------------------------------------------------------------------
(* The RNNoise stage driven by any caller.  Process and Reset are called    *)
(* once an Initialize has got past the sample-rate check, and no call is    *)
(* made on a stage whose last call threw, did not return or ran into        *)
(* undefined behaviour.                                                     *)

\* RNNoiseConfig with enable_vad set or not
StageConfigs == [enable_vad : BOOLEAN]

\* the stage of the test fixture: RNNoiseConfig config; config.enable_vad = true;
InitStage ==
    /\ SegmenterNew(ScenarioConfig)
    /\ StageNew([enable_vad |-> TRUE])
    /\ Build(TRUE)
    /\ IdleCollaborators

\* the rates the tests hand to Initialize
SampleRates == {8000, 24000, 44100, 48000}

\* the per-channel scores rnnoise_process_frame returns, in percent
VadScores == {0, 100}

\* one score per channel of a frame
ScoreChoices == [1..(IF channels_ > 0 THEN channels_ ELSE 0) -> VadScores]

\* the scores of a call that completes no frame
NoScores == <<>>

\* the most frames a Process call on num_samples samples can complete: with
\* frame_size * channels = 0 a cursor beyond 0 makes the one pass of the loop
\* take all the input and call ProcessFrame once
FramesCompleted(num_samples) ==
    IF ~rnnoise_enabled \/ num_samples = 0 \/ FrameTotalSize < 0 THEN 0
    ELSE IF FrameTotalSize = 0 THEN 1
    ELSE (rebuffer_pos_ + num_samples) \div FrameTotalSize

\* one choice of scores for each frame a Process call completes
CallScores(num_samples) == [1..FramesCompleted(num_samples) -> ScoreChoices]

Usable == status \notin {"threw", "hang", "ub", "bad handle", "destroyed"}

CallInitialize ==
    /\ ops < MaxOps /\ Usable
    /\ inits < MaxInits
    /\ \E sample_rate \in SampleRates, channels \in (-1)..MaxChannels :
          \E fail_at \in 0..(IF channels < 0 \/ ~SupportedRate(sample_rate) THEN 0 ELSE channels) :
             Initialize(sample_rate, channels, fail_at)
    /\ UNCHANGED <<segVars, extVars>>

CallProcess ==
    /\ ops < MaxOps /\ Usable
    /\ rnnoise_enabled => frame_size_ > 0
    /\ \E num_samples \in 0..MaxCapture :
          \E scores \in CallScores(num_samples) :
             Process(num_samples, scores)
    /\ UNCHANGED <<segVars, extVars>>

CallStageReset ==
    /\ ops < MaxOps /\ Usable
    /\ rnnoise_enabled => frame_size_ > 0
    /\ \E fail_at \in 0..(IF channels_ < 0 \/ ~rnnoise_enabled THEN 0 ELSE channels_) :
          StageReset(fail_at)
    /\ UNCHANGED <<segVars, extVars>>

\* the stage goes out of scope
CallDestroy ==
    /\ ops < MaxOps /\ Usable
    /\ inits > 0
    /\ Destroy
    /\ UNCHANGED <<segVars, extVars>>

NextStage == CallInitialize \/ CallProcess \/ CallStageReset

SpecStage == InitStage /\ [][NextStage]_vars

(* The stage from construction to destruction *)

NextLifetime == CallInitialize \/ CallProcess \/ CallStageReset \/ CallDestroy

SpecLifetime == InitStage /\ [][NextLifetime]_vars

(* RNNoiseProcessorTest.VAD_DisabledReturnsZero: config.enable_vad = false *)

InitVadDisabled ==
    /\ SegmenterNew(ScenarioConfig)
    /\ StageNew([enable_vad |-> FALSE])
    /\ Build(TRUE)
    /\ IdleCollaborators

SpecVadDisabled == InitVadDisabled /\ [][NextStage]_vars

(* A build without ENABLE_RNNOISE: the stage in passthrough mode *)

InitPassthrough ==
    /\ SegmenterNew(ScenarioConfig)
    /\ \E config \in StageConfigs : StageNew(config)
    /\ Build(FALSE)
    /\ IdleCollaborators

SpecPassthrough == InitPassthrough /\ [][NextStage]_vars

----------------------------------------------------------------------------
(* Claims about the segmenter *)

\* C1 (as stated): in the scenario (threshold 0.5, min_speech_frames 3,
\* min_silence_frames 3, frames of 480 samples), after 10 frames at 0.9 the
\* segmenter is in speech with no callback so far; after 5 more frames at 0.1
\* exactly one callback was invoked, with num_samples = 480*10, and the
\* segmenter is out of speech.
C1_ScenarioAsStated ==
    /\ pat = <<ScenarioSpeechFrames, 0>> => (IsInSpeech /\ Len(segments) = 0)
    /\ pat = <<ScenarioSpeechFrames, ScenarioSilenceFrames>> =>
          /\ Len(segments) = 1
          /\ Len(segments[1]) = ScenarioFrameSamples * ScenarioSpeechFrames
          /\ ~IsInSpeech

\* C1 (amended): as above, but the one segment holds 480*11 samples: the 8
\* speech frames from the third (flipping) frame on, and the 3 silence frames
\* up to the one that makes silence_frames_ reach min_silence_frames.
C1_ScenarioAmended ==
    /\ pat = <<ScenarioSpeechFrames, 0>> => (IsInSpeech /\ Len(segments) = 0)
    /\ pat = <<ScenarioSpeechFrames, ScenarioSilenceFrames>> =>
          /\ Len(segments) = 1
          /\ Len(segments[1]) =
                ScenarioFrameSamples *
                  ((ScenarioSpeechFrames - ScenarioMinFrames + 1) + ScenarioMinFrames)
          /\ segments[1] =
                Frame(ScenarioFrameSamples * (ScenarioMinFrames - 1),
                      ScenarioFrameSamples * (ScenarioSpeechFrames + 1))
          /\ ~IsInSpeech

C1_Witness ==
    /\ pat = <<ScenarioSpeechFrames, ScenarioSilenceFrames>>
    /\ Len(segments) = 1
    /\ calls = ScenarioSpeechFrames + ScenarioSilenceFrames

\* C2: the buffer never holds more than max_segment_samples samples and no
\* callback payload is longer than max_segment_samples.
C2_WithinCap ==
    /\ Len(buffer_) <= config_.max_segment_samples
    /\ \A i \in 1..Len(segments) : Len(segments[i]) <= config_.max_segment_samples

\* C4: ProcessFrame with num_samples = 0 is a no-op for every vad_prob and
\* prior state: no callback, and in_speech_, both counters and the buffer
\* are unchanged.
C4_ZeroSamplesNoOp ==
    [][ \A p \in VadProbs, cb \in BOOLEAN :
          ProcessFrame(0, p, cb) =>
             UNCHANGED <<in_speech_, speech_frames_, silence_frames_, buffer_, segments>>
      ]_vars

\* C5: inside the debounce window (since Silence was entered, no run of
\* speech-classified frames has reached min_speech_frames) a frame that is
\* silence-classified, or speech-classified but still short of
\* min_speech_frames in a row, invokes no callback and leaves the segmenter
\* out of speech with an empty buffer; a silence frame restarts the run.
C5_Debounce ==
    /\ [](run >= 0 => (~IsInSpeech /\ GetBufferSize = 0))
    /\ [][ \A p \in VadProbs, cb \in BOOLEAN :
             ( /\ run >= 0
               /\ ProcessFrame(fed' - fed, p, cb)
               /\ (p < config_.speech_threshold \/ run + 1 < config_.min_speech_frames) )
             => ( /\ segments' = segments
                  /\ ~IsInSpeech'
                  /\ GetBufferSize' = 0
                  /\ run' = IF p < config_.speech_threshold THEN 0 ELSE run + 1 )
       ]_vars

\* two runs of speech frames, each short of min_speech_frames and separated
\* by silence, have been fed and nothing was accepted or emitted
C5_Witness ==
    /\ run = 0
    /\ heard >= 2
    /\ config_.min_speech_frames = 2
    /\ last.op = "ProcessFrame"
    /\ accepted = <<>>
    /\ segments = <<>>
    /\ ~IsInSpeech

\* C6: while Accumulating, the speech-classified frame that makes the buffer
\* reach max_segment_samples has the (non-null) callback invoked exactly once
\* in that call and leaves the segmenter in Silence with an empty buffer; so
\* after any call GetBufferSize() < max_segment_samples, and once the
\* accepted samples total max_segment_samples a segment has been emitted.
C6_MaxLengthCap ==
    /\ [](GetBufferSize < config_.max_segment_samples)
    /\ []((clean /\ Len(accepted) >= config_.max_segment_samples) => Len(segments) >= 1)
    /\ [][ \A p \in VadProbs :
             ( /\ IsInSpeech
               /\ p >= config_.speech_threshold
               /\ GetBufferSize + (fed' - fed) >= config_.max_segment_samples
               /\ ProcessFrame(fed' - fed, p, TRUE) )
             => ( /\ Len(segments') = Len(segments) + 1
                  /\ Len(segments'[Len(segments')]) = GetBufferSize + (fed' - fed)
                  /\ ~IsInSpeech'
                  /\ GetBufferSize' = 0
                  /\ speech_frames_' = 0 /\ silence_frames_' = 0 )
       ]_vars

\* a segment was cut by the cap after at least two accumulated frames
C6_Witness ==
    /\ clean
    /\ last = [op |-> "ProcessFrame", ncb |-> 1]
    /\ heard = calls
    /\ calls >= config_.min_speech_frames + 1
    /\ Len(segments) = 1
    /\ Len(segments[1]) >= config_.max_segment_samples
    /\ Len(segments[1]) > MaxFrameLen
    /\ GetBufferSize = 0 /\ ~IsInSpeech

\* C8: Flush invokes the (non-null) callback exactly once iff the buffer is
\* non-empty, with the whole buffer, which is everything appended since
\* Accumulating was entered; with an empty buffer it invokes nothing.  Either
\* way the segmenter is then in Silence with an empty buffer and zero counters.
C8_Flush ==
    /\ [](last.op = "Flush" =>
            /\ ~IsInSpeech /\ GetBufferSize = 0
            /\ speech_frames_ = 0 /\ silence_frames_ = 0
            /\ (clean => Flatten(segments) = accepted))
    /\ [][ \A cb \in BOOLEAN :
             Flush(cb) =>
               /\ (cb /\ buffer_ # <<>>) =>
                     (Len(segments') = Len(segments) + 1 /\ segments'[Len(segments')] = buffer_)
               /\ buffer_ = <<>> => segments' = segments
       ]_vars

\* a Flush delivered a buffer of several frames
C8_Witness ==
    /\ last = [op |-> "Flush", ncb |-> 1]
    /\ clean
    /\ Len(segments[Len(segments)]) >= 2
    /\ calls >= 3
    /\ GetBufferSize = 0

\* C9: with non-null callbacks and no Reset, the payloads emitted so far
\* followed by the current buffer are exactly the frames received while
\* Accumulating, sample for sample and in arrival order.
C9_NoLossNoDuplication ==
    clean => Flatten(segments) \o buffer_ = accepted

\* a segment of two frames was emitted, a frame was left out in Silence and
\* the next segment is being accumulated
C9_Witness ==
    /\ clean
    /\ Len(segments) >= 1
    /\ Len(segments[1]) > MaxFrameLen
    /\ GetBufferSize > 0
    /\ Len(accepted) < fed

----------------------------------------------------------------------------
(* Claims about the RNNoise stage, checked under SpecStage *)

\* the j-th frame of the stream handed to Process since the last successful
\* Initialize or Reset
StreamBlock(j) ==
    [i \in 1..FrameTotalSize |-> ToFloat(Sample(epoch + (j - 1) * FrameTotalSize + i))]

\* the samples the caller handed to the last Process call
LastInput == Capture(streamed - Len(samples), Len(samples))

\* C3: however the stream is split into Process calls, the frames handed to
\* the model are the consecutive frame_size * channels blocks of the
\* concatenated stream, and the samples waiting in the rebuffer for the next
\* frame are the stream's own latest samples: nothing written back from an
\* earlier frame takes the place of a sample that has not been consumed yet.
C3_FramesAreStreamBlocks ==
    (initialized /\ Usable) =>
        /\ \A j \in 1..Len(handed) : handed[j] = StreamBlock(j)
        /\ rebuffer_pos_ <= Len(rebuffer_)
        /\ \A i \in 1..rebuffer_pos_ :
              rebuffer_[i] = ToFloat(Sample(streamed - rebuffer_pos_ + i))

\* C7: after a Process call that leaves samples waiting for the next frame,
\* each of the last min(num_samples, rebuffer_pos_) positions of the caller's
\* buffer holds the call's own input sample for that position (to within the
\* one unit the stage's int16 conversion takes off), not other data.
C7_PendingTailPassThrough ==
    (initialized /\ status = "ok") =>
        \A i \in 1..Len(samples) :
            i > Len(samples) - Min2(Len(samples), rebuffer_pos_) =>
                /\ samples[i] - LastInput[i] <= 1
                /\ LastInput[i] - samples[i] <= 1

\* C10: after a successful Initialize, and whatever Process and Reset calls
\* follow it, the cursor is the number of samples handed to Process since the
\* last Initialize or Reset modulo frame_size * channels, and it is below that
\* capacity.
C10_CursorInvariant ==
    (initialized /\ Usable) =>
        /\ FrameTotalSize > 0
        /\ rebuffer_pos_ >= 0
        /\ rebuffer_pos_ < FrameTotalSize
        /\ rebuffer_pos_ = (streamed - epoch) % FrameTotalSize

\* The cursor invariant of C10 on a stage initialized with one channel or more.
CursorInvariantWithChannels ==
    (initialized /\ Usable /\ channels_ >= 1) =>
        /\ rebuffer_pos_ >= 0
        /\ rebuffer_pos_ < FrameTotalSize
        /\ rebuffer_pos_ = (streamed - epoch) % FrameTotalSize

\* C11: on an initialized stage, once a Reset has failed to recreate a model
\* and until a Reset or an Initialize succeeds, no Process call hands a frame to a model through a
\* null or missing handle, and every Process call is a no-op: no frame is
\* handed to the model and the caller's buffer comes back as it went in (to
\* within the one unit the int16 conversion takes off).
C11_NoOpAfterFailedReset ==
    /\ []((initialized /\ reset_failed) => status # "bad handle")
    /\ [][ (initialized /\ reset_failed /\ \E scores \in CallScores(streamed' - streamed) : Process(streamed' - streamed, scores)) =>
              /\ handed' = handed
              /\ \A i \in 1..Len(samples') :
                    /\ samples'[i] - Capture(streamed, Len(samples'))[i] <= 1
                    /\ Capture(streamed, Len(samples'))[i] - samples'[i] <= 1
       ]_vars

\* C12: Initialize with a channel count of zero or less returns false: it
\* does not throw and does not leave the stage initialized.
C12_RejectsBadChannelCount ==
    [][ (channels_' <= 0 /\ Initialize(sample_rate_', channels_', 0)) =>
           (status' = "false" /\ ~initialized')
      ]_vars

\* C13: Initialize returns false for every sample rate other than 48000,
\* 44100 and 24000, and that call allocates no rebuffer and creates no model
\* handle; for one of these rates, with channels >= 1 and every model created,
\* it returns true with the frame size set (480 in the code), a rebuffer of
\* frame size * channels samples with the cursor at 0, and one fresh non-null
\* handle per channel.
C13_InitializeBySampleRate ==
    [][ /\ ( /\ sample_rate_' \notin {48000, 44100, 24000}
             /\ channels_' >= 1
             /\ \E fail_at \in 0..channels_' : Initialize(sample_rate_', channels_', fail_at) )
           => ( /\ status' = "false"
                /\ UNCHANGED <<rebuffer_, rebuffer_pos_, states_, next_handle, frame_size_>> )
        /\ ( /\ sample_rate_' \in {48000, 44100, 24000}
             /\ channels_' >= 1
             /\ Initialize(sample_rate_', channels_', channels_') )
           => ( /\ status' = "true"
                /\ frame_size_' = FrameSize
                /\ Len(rebuffer_') = FrameSize * channels_'
                /\ rebuffer_pos_' = 0
                /\ Len(states_') = channels_'
                /\ \A ch \in 1..channels_' :
                      /\ states_'[ch] # 0
                      /\ states_'[ch] > next_handle
                      /\ \A other \in 1..channels_' : states_'[other] = states_'[ch] => other = ch )
      ]_vars

\* a stereo stage was initialized at 44100 Hz by the second call made on it,
\* the first call having created no handle
C13_Witness ==
    /\ status = "true"
    /\ sample_rate_ = 44100
    /\ channels_ = MaxChannels
    /\ Len(states_) = MaxChannels
    /\ ops = 2
    /\ next_handle = MaxChannels

\* the number of rnnoise_destroy calls made on handle h
TimesDestroyed(h, calls_made) == Cardinality({i \in 1..Len(calls_made) : calls_made[i] = h})

\* C14: a Reset in which the creation of the model of channel k fails after
\* channels 0..k-1 succeeded destroys each of the k recreated handles exactly
\* once and leaves the stage with no handle at all; a Reset in which every
\* creation succeeds leaves exactly one fresh handle per channel.  Either way
\* every handle the stage held before has been destroyed exactly once.
C14_ResetAtomic ==
    [][ \A fail_at \in 0..(MaxChannels + 1) :
          (channels_ >= 0 /\ fail_at <= channels_ /\ StageReset(fail_at)) =>
             /\ \A i \in 1..Len(states_) :
                   states_[i] # 0 => TimesDestroyed(states_[i], destroyed') = 1
             /\ fail_at < channels_ =>
                   /\ states_' = <<>>
                   /\ \A h \in (next_handle + 1)..(next_handle + fail_at) :
                         TimesDestroyed(h, destroyed') = 1
             /\ fail_at = channels_ =>
                   /\ Len(states_') = channels_
                   /\ \A ch \in 1..channels_ :
                         /\ states_'[ch] > next_handle
                         /\ TimesDestroyed(states_'[ch], destroyed') = 0
                         /\ \A other \in 1..channels_ :
                               states_'[other] = states_'[ch] => other = ch
      ]_vars

\* on a stereo stage a Reset recreated the model of channel 0 and failed on
\* channel 1: the two old handles and the recreated one have been destroyed
C14_Witness ==
    /\ status = "reset failed"
    /\ channels_ = 2
    /\ states_ = <<>>
    /\ Len(destroyed) = 3
    /\ next_handle = 3

\* C15: on a stage whose Initialize returned true, every Process call
\* returns, whatever the sample count: the rebuffer loop never spins.
C15_ProcessTerminates ==
    initialized => status # "hang"

----------------------------------------------------------------------------
(* Further claims about the segmenter, checked under Spec *)

\* C16: Reset invokes no callback and leaves the segmenter in the state of a
\* newly constructed one with the same configuration (out of speech, empty
\* buffer, both counters 0), so what follows behaves as on a new segmenter;
\* and no sample that a Reset discarded is in any segment, then or later.
C16_ResetAsNew ==
    /\ [](\A i \in 1..Len(segments) : \A j \in 1..Len(segments[i]) :
             segments[i][j] \notin discarded)
    /\ [](\A i \in 1..Len(buffer_) : buffer_[i] \notin discarded)
    /\ [][ Reset =>
             /\ segments' = segments
             /\ config_' = config_
             /\ ~IsInSpeech' /\ GetBufferSize' = 0
             /\ buffer_' = <<>> /\ speech_frames_' = 0 /\ silence_frames_' = 0
       ]_vars

\* a Reset discarded accumulated audio, and a segment accumulated after it
\* has been emitted
C16_Witness ==
    /\ discarded # {}
    /\ Len(segments) >= 1
    /\ last.ncb = 1
    /\ \A d \in discarded : \A j \in 1..Len(segments[Len(segments)]) :
          segments[Len(segments)][j] > d

\* the step is a call of ProcessFrame with probability p and callback cb, on
\* a frame of any length (the first three conjuncts follow from the fourth)
FrameStep(p, cb) ==
    /\ last'.op = "ProcessFrame"
    /\ heard' - heard = (IF p >= config_.speech_threshold THEN 1 ELSE 0)
    /\ clean' = (clean /\ cb)
    /\ ProcessFrame(fed' - fed, p, cb)

\* C17: a ProcessFrame call made in Silence enters Accumulating exactly when
\* its frame is speech-classified and makes the run of consecutive
\* speech-classified frames reach min_speech_frames; the buffer then starts
\* with that frame alone (the earlier frames of the run are in no buffer and
\* no segment), and any other call made in Silence appends nothing.  A call
\* made while Accumulating appends its frame to the buffer.
C17_AccumulationStartsAtFlip ==
    /\ [](~IsInSpeech => GetBufferSize = 0)
    /\ [][ \A p \in VadProbs, cb \in BOOLEAN :
             FrameStep(p, cb) =>
               LET frame == Frame(fed, fed' - fed)
                   flips == /\ ~IsInSpeech
                            /\ p >= config_.speech_threshold
                            /\ run + 1 >= config_.min_speech_frames
               IN  /\ (~IsInSpeech /\ ~flips) =>
                         (~IsInSpeech' /\ buffer_' = <<>> /\ segments' = segments)
                   /\ flips =>
                         \/ (IsInSpeech' /\ buffer_' = frame /\ segments' = segments)
                         \/ ( /\ ~IsInSpeech' /\ buffer_' = <<>>
                              /\ segments' \in {segments, Append(segments, frame)} )
                   /\ IsInSpeech =>
                         \/ (IsInSpeech' /\ buffer_' = buffer_ \o frame /\ segments' = segments)
                         \/ ( /\ ~IsInSpeech' /\ buffer_' = <<>>
                              /\ segments' \in {segments, Append(segments, buffer_ \o frame)} )
       ]_vars

\* with min_speech_frames = 2, two full speech frames were fed and the buffer
\* holds the second one only
C17_Witness ==
    /\ config_.min_speech_frames = 2
    /\ calls = 2
    /\ heard = 2
    /\ IsInSpeech
    /\ fed = 2 * MaxFrameLen
    /\ buffer_ = Frame(MaxFrameLen, MaxFrameLen)

\* C18: a ProcessFrame call made while Accumulating that leaves the buffer
\* below max_segment_samples ends the segment exactly when its frame is
\* silence-classified and makes the run of consecutive silence-classified
\* frames reach min_silence_frames.  Then the (non-null) callback is invoked
\* once with the whole buffer, this frame and the silence frames before it
\* included, unless the buffer is empty, and the segmenter is left in Silence
\* with an empty buffer and zero counters; otherwise no callback is invoked
\* and the segmenter stays in Accumulating.
C18_SilenceEndsSegment ==
    [][ \A p \in VadProbs, cb \in BOOLEAN :
          ( /\ IsInSpeech
            /\ GetBufferSize + (fed' - fed) < config_.max_segment_samples
            /\ FrameStep(p, cb) )
          => LET payload == buffer_ \o Frame(fed, fed' - fed)
                 ends == p < config_.speech_threshold /\ quiet + 1 >= config_.min_silence_frames
             IN  /\ ends =>
                       /\ segments' = IF cb /\ payload # <<>> THEN Append(segments, payload)
                                      ELSE segments
                       /\ ~IsInSpeech' /\ GetBufferSize' = 0
                       /\ speech_frames_' = 0 /\ silence_frames_' = 0
                 /\ ~ends => (segments' = segments /\ IsInSpeech' /\ buffer_' = payload)
      ]_vars

\* with min_silence_frames = 2, a speech frame and two silence frames were
\* fed, and the second silence frame ended the segment below the cap with
\* everything fed as its payload
C18_Witness ==
    /\ config_.min_silence_frames = 2
    /\ last = [op |-> "ProcessFrame", ncb |-> 1]
    /\ heard = 1
    /\ calls = 3
    /\ clean
    /\ segments = << Frame(0, 2) >>
    /\ config_.max_segment_samples = MaxSegmentCap
    /\ fed = 2

\* C19: a ProcessFrame call made while Accumulating that does not end the
\* segment appends its frame to the buffer, whether the frame is speech- or
\* silence-classified.  Below the cap, a speech-classified frame that follows
\* a pause of fewer than min_silence_frames silence frames invokes no
\* callback, keeps the segmenter in Accumulating and restarts the silence
\* counter from 0; a pause inside a segment is always that short.
C19_ShortPauseKeepsSegment ==
    /\ [](IsInSpeech => (silence_frames_ = quiet /\ quiet < config_.min_silence_frames))
    /\ [][ \A p \in VadProbs, cb \in BOOLEAN :
             (IsInSpeech /\ FrameStep(p, cb)) =>
                /\ IsInSpeech' => buffer_' = buffer_ \o Frame(fed, fed' - fed)
                /\ ( /\ p >= config_.speech_threshold
                     /\ GetBufferSize + (fed' - fed) < config_.max_segment_samples )
                   => ( /\ segments' = segments
                        /\ IsInSpeech'
                        /\ silence_frames_' = 0 )
       ]_vars

\* with min_silence_frames = 2, a speech frame, a silence frame and a speech
\* frame were fed: all of it is in the buffer, nothing was emitted and the
\* silence counter is back at 0
C19_Witness ==
    /\ config_.min_silence_frames = 2
    /\ calls = 3
    /\ heard = 2
    /\ IsInSpeech
    /\ silence_frames_ = 0
    /\ segments = <<>>
    /\ fed = 2
    /\ buffer_ = Frame(0, 2)
    /\ speech_frames_ = 1

\* C20, checked under SpecBoundary: a frame whose probability equals
\* speech_threshold has the effect of a frame with a higher probability: it
\* zeroes the silence counter and raises the speech counter by one (unless
\* the call ends the segment, which zeroes both).  A frame with a probability
\* below the threshold zeroes the speech counter and raises the silence
\* counter by one (unless the call ends the segment).
C20_ThresholdIsSpeech ==
    [][ \A cb \in BOOLEAN :
          /\ FrameStep(config_.speech_threshold, cb) =>
                /\ \A higher \in {config_.speech_threshold + 1, config_.speech_threshold + 40} :
                      ProcessFrame(fed' - fed, higher, cb)
                /\ silence_frames_' = 0
                /\ \/ speech_frames_' = speech_frames_ + 1
                   \/ (speech_frames_' = 0 /\ ~IsInSpeech' /\ GetBufferSize' = 0)
          /\ \A p \in BoundaryProbs :
                (p < config_.speech_threshold /\ FrameStep(p, cb)) =>
                   /\ speech_frames_' = 0
                   /\ \/ silence_frames_' = silence_frames_ + 1
                      \/ (silence_frames_' = 0 /\ IsInSpeech /\ ~IsInSpeech')
      ]_vars

\* with min_speech_frames = 2, two frames at exactly the threshold have put
\* the segmenter in Accumulating
C20_Witness ==
    /\ config_.min_speech_frames = 2
    /\ calls = 2
    /\ heard = 2
    /\ speech_frames_ = 2
    /\ silence_frames_ = 0
    /\ IsInSpeech
    /\ GetBufferSize = MaxFrameLen

----------------------------------------------------------------------------
(* Claims about what a caller observes between calls *)

\* C21: in every state between calls, after any sequence of ProcessFrame,
\* Flush and Reset, GetBufferSize() > 0 implies IsInSpeech(): the buffer is
\* non-empty only while the segmenter is accumulating.
C21_BufferOnlyWhileAccumulating == GetBufferSize > 0 => IsInSpeech

\* a second accumulation under way: a segment has been emitted and the buffer
\* holds samples again
C21_Witness ==
    /\ GetBufferSize > 0
    /\ IsInSpeech
    /\ Len(segments) > 0
    /\ last.op = "ProcessFrame"

\* C22: a ProcessFrame call invokes the callback at most once, also when the
\* silence condition and the max-length condition hold on the same frame; a
\* Flush call invokes it at most once; Reset does not invoke it.
C22_AtMostOneCallbackPerCall ==
    [][ /\ Len(segments') - Len(segments) \in {0, 1}
        /\ last'.op = "Reset" => segments' = segments
      ]_vars

\* a speech frame of one sample, then a silence frame of two: the second
\* frame fills the buffer to max_segment_samples and is the min_silence_frames-th
\* silence frame, and one callback has been made
C22_Witness ==
    /\ config_.min_silence_frames = 1
    /\ config_.max_segment_samples = MaxSegmentCap
    /\ calls = 2 /\ heard = 1 /\ fed = MaxSegmentCap
    /\ last = [op |-> "ProcessFrame", ncb |-> 1]
    /\ Len(segments) = 1
    /\ Len(segments[1]) = MaxSegmentCap

----------------------------------------------------------------------------
(* A segmenter and a stage held side by side, as the audio pipeline holds    *)
(* them: the stage is initialized once, with a supported rate and one       *)
(* channel, and handed one sample or one frame at a time, the               *)
(* segmenter is fed frames of one sample, and                               *)
(* MaxPipelineCalls bounds the calls made on the two together.              *)

PipelineConfig == Config(DefaultSpeechThreshold, 1, 1, MaxSegmentCap)

InitPipeline ==
    /\ SegmenterNew(PipelineConfig)
    /\ \E config \in StageConfigs : StageNew(config)
    /\ Build(TRUE)
    /\ IdleCollaborators

PipelineInitialize ==
    /\ ops + calls < MaxPipelineCalls /\ Usable
    /\ inits = 0
    /\ Initialize(48000, 1, 1)
    /\ UNCHANGED <<segVars, extVars>>

PipelineProcess ==
    /\ ops + calls < MaxPipelineCalls /\ Usable
    /\ frame_size_ > 0
    /\ \E num_samples \in {1, FrameTotalSize} :
          \E scores \in CallScores(num_samples) :
             Process(num_samples, scores)
    /\ UNCHANGED <<segVars, extVars>>

PipelineStageReset ==
    /\ ops + calls < MaxPipelineCalls /\ Usable
    /\ frame_size_ > 0
    /\ \E fail_at \in 0..channels_ : StageReset(fail_at)
    /\ UNCHANGED <<segVars, extVars>>

PipelineFrame ==
    /\ ops + calls < MaxPipelineCalls
    /\ \E p \in {ScenarioSilenceProb, ScenarioSpeechProb} : ProcessFrame(1, p, TRUE)
    /\ UNCHANGED <<rnVars, extVars>>

PipelineReset ==
    /\ ops + calls < MaxPipelineCalls
    /\ Reset
    /\ UNCHANGED <<rnVars, extVars>>

NextPipeline ==
    PipelineInitialize \/ PipelineProcess \/ PipelineStageReset \/ PipelineFrame \/ PipelineReset

SpecPipeline == InitPipeline /\ [][NextPipeline]_vars

\* what a caller observes of a segmenter: in_speech, the counters, the buffer
SegmenterObservable == <<in_speech_, speech_frames_, silence_frames_, buffer_>>

\* what a caller observes of a stage: the cursor, the last VAD probability,
\* the number of live model handles
StageObservable == <<rebuffer_pos_, last_vad_prob_, Len(Live(states_))>>

----------------------------------------------------------------------------
(* The stage's conversions on their own: a mono stage is handed one sample, *)
(* which waits in the rebuffer for a frame and so reaches no model.         *)

Int16Min == -32768
Int16Max == 32767

Int16Values == Int16Min..Int16Max

InitRoundTrip ==
    /\ SegmenterNew(ScenarioConfig) /\ StageNew([enable_vad |-> FALSE]) /\ Build(TRUE)
    /\ IdleCollaborators

RoundTripInitialize ==
    /\ ops = 0
    /\ Initialize(48000, 1, 1)
    /\ UNCHANGED <<segVars, extVars>>

RoundTripProcess ==
    /\ ops = 1 /\ status = "true"
    /\ \E x \in Int16Values : ProcessBuffer(<<x>>, NoScores)
    /\ UNCHANGED <<segVars, extVars>>

NextRoundTrip == RoundTripInitialize \/ RoundTripProcess

SpecRoundTrip == InitRoundTrip /\ [][NextRoundTrip]_vars

\* C24: for every int16 value x, dividing by 32768, clamping to [-1, 1],
\* multiplying by 32767 and converting back to int16 yields a value within 1
\* of x, and exactly x for x = 0 and for x = -32768.
C24_RoundTrip ==
    (ops = 2 /\ status = "ok") =>
        /\ handed = <<>>
        /\ samples[1] - given[1] <= 1
        /\ given[1] - samples[1] <= 1
        /\ given[1] \in {0, Int16Min} => samples[1] = given[1]

----------------------------------------------------------------------------
(* Claims about the stage's VAD probability and its Reset *)

\* GetVADProbability(): last_vad_prob_ ; in percent, num / den
VadInUnitRange ==
    /\ last_vad_prob_.den >= 1
    /\ 0 <= last_vad_prob_.num
    /\ last_vad_prob_.num <= 100 * last_vad_prob_.den

\* the arithmetic mean of the scores of the most recently completed frame
MeanOfLastScores == [num |-> TotalVadProb(last_scores, Len(last_scores)), den |-> Len(last_scores)]

\* C25 (as stated): after any sequence of Initialize, Process and Reset calls
\* with valid inputs (channels >= 1, the model's scores in [0, 1]),
\* GetVADProbability() is in [0.0, 1.0];
\* with VAD enabled it equals the arithmetic mean over channels of the model's
\* scores for the most recently completed frame.
C25_VadBoundsAsStated ==
    (Usable /\ valid) =>
        /\ VadInUnitRange
        /\ (enable_vad /\ last_scores # <<>>) => last_vad_prob_ = MeanOfLastScores

\* C25 (amended): as above, the mean being that of the most recently
\* completed frame since the last Reset; with no frame completed since
\* construction or the last Reset the probability is 0.
C25_VadBoundsAmended ==
    (Usable /\ valid) =>
        /\ VadInUnitRange
        /\ (enable_vad /\ scored) => last_vad_prob_ = MeanOfLastScores
        /\ ~scored => last_vad_prob_ = VadAfterReset

\* a stereo frame whose channels scored differently, with VAD enabled
C25_Witness ==
    /\ enable_vad /\ scored /\ channels_ = 2 /\ status = "ok"
    /\ last_scores = <<100, 0>>
    /\ last_vad_prob_ = [num |-> 100, den |-> 2]

\* C26: when the frame_size * channels overflow check of Process fires, the
\* call is aborted with no partial state mutation: the caller's samples, the
\* rebuffer contents, the rebuffer cursor and the last VAD probability are as
\* before the call, and no model is invoked.
C26_OverflowAbortsCleanly ==
    [][ (ops' = ops + 1 /\ status' = "aborted") =>
            /\ samples' = given'
            /\ UNCHANGED <<rebuffer_, rebuffer_pos_, last_vad_prob_, handed, last_scores>>
      ]_vars

\* the check fired on a stage that held a pending sample and a VAD
\* probability from an earlier frame
C26_Witness ==
    /\ status = "aborted"
    /\ channels_ < 0 /\ frame_size_ > 0
    /\ given # <<>>
    /\ rebuffer_pos_ > 0
    /\ last_vad_prob_.num > 0

\* the index in the stream of the sample a frame element v was made from:
\* Denoise adds 8192 each time it is applied, and Sample(k) is 4 * k
StreamIndex(v) == (v % 8192) \div 4

\* C28: Reset, without requiring a new Initialize, sets the rebuffer cursor to
\* 0, zeroes the rebuffer and sets the last VAD probability to 0; samples
\* pending from before the Reset are never included in a frame processed after
\* it, and the first frame after the Reset consists only of samples fed after
\* the Reset.
C28_ResetDropsPending ==
    /\ stage_resets >= 1 =>
          /\ rebuffer_pos_ = 0
          /\ rebuffer_ = [i \in 1..Len(rebuffer_) |-> 0]
          /\ last_vad_prob_ = [num |-> 0, den |-> 1]
    /\ (Usable /\ initialized /\ epoch_op = "Reset") =>
          /\ \A j \in 1..Len(handed) : \A i \in 1..Len(handed[j]) :
                /\ handed[j][i] > 0
                /\ StreamIndex(handed[j][i]) > epoch
                /\ StreamIndex(handed[j][i]) <= streamed
          /\ Len(handed) >= 1 => handed[1] = StreamBlock(1)

\* Initialize, Process with one sample (left pending), Reset, then a Process
\* call that completes a frame
C28_Witness ==
    /\ ops = 4 /\ inits = 1 /\ status = "ok"
    /\ epoch_op = "Reset" /\ epoch = 1
    /\ stage_resets = 0
    /\ Len(handed) = 1

\* C29: with enable_vad = false, GetVADProbability() returns 0 after any
\* sequence of Initialize, Process and Reset calls: completed frames never
\* update the last VAD probability when VAD is disabled.
C29_VadDisabledStaysZero == ~enable_vad => last_vad_prob_ = [num |-> 0, den |-> 1]

\* a frame whose channel scored 1.0 has been completed with VAD disabled
C29_Witness ==
    /\ ~enable_vad /\ scored /\ status = "ok"
    /\ \E ch \in 1..Len(last_scores) : last_scores[ch] = 100
    /\ last_vad_prob_ = [num |-> 0, den |-> 1]

\* C27: in a build without the noise-suppression library, Initialize returns
\* true (e.g. Initialize(48000, 1)), every Process call leaves the caller's
\* samples bit-identical, Reset succeeds, and GetVADProbability() returns 0.0
\* after any sequence of calls.
C27_Passthrough ==
    ~rnnoise_enabled =>
        /\ status \in {"new", "true", "ok", "reset ok"}
        /\ inits >= 1 => initialized
        /\ samples = given
        /\ last_vad_prob_ = [num |-> 0, den |-> 1]
        /\ handed = <<>>

\* a passthrough stage with VAD enabled, initialized as Initialize(48000, 1),
\* reset, and then handed a buffer
C27_Witness ==
    /\ ~rnnoise_enabled /\ enable_vad
    /\ sample_rate_ = 48000 /\ channels_ = 1 /\ inits = 1
    /\ epoch_op = "Reset"
    /\ status = "ok" /\ Len(given) = MaxCapture

\* the handles rnnoise_create has given out
Created == 1..next_handle

\* C30: for any sequence of Initialize, Process and Reset calls (Initialize
\* called again after Reset or after an earlier Initialize included) followed
\* by destruction, every Initialize being given one channel or more, every
\* handle obtained from rnnoise_create is destroyed exactly once, and after
\* each successful Initialize or Reset the stage holds exactly `channels`
\* live handles.
C30_HandlesInLockstep ==
    /\ \A h \in Created : TimesDestroyed(h, destroyed) <= 1
    /\ (status = "destroyed" /\ valid) => \A h \in Created : TimesDestroyed(h, destroyed) = 1
    /\ (status \in {"true", "reset ok"} /\ valid) =>
          /\ Len(states_) = channels_
          /\ Len(Live(states_)) = channels_

----------------------------------------------------------------------------
(* Claims about failed initialization, max-length splits and whole frames *)

\* C36: if Initialize returns false (unsupported sample rate, or model
\* creation failing at channel k), the stage is left exactly as it was before
\* the call: stored sample rate and channel count, frame size, rebuffer size
\* and cursor and the set of model handles are unchanged.
C36_FailedInitializeChangesNothing ==
    [][ (inits' = inits + 1 /\ status' = "false" /\ valid') =>
            /\ UNCHANGED <<sample_rate_, channels_, frame_size_, rebuffer_pos_, states_>>
            /\ Len(rebuffer_') = Len(rebuffer_)
      ]_vars

\* C37: after a max-length emission the segmenter is in Silence with both
\* counters at 0, so under uninterrupted speech-classified frames it re-enters
\* Accumulating only on the min_speech_frames-th following frame: with
\* min_speech_frames = N, exactly the N-1 frames that follow each max-length
\* split are appended to no segment, and consecutive max-length segments are
\* contiguous in the input only when N <= 1.  Stated for a segmenter that has
\* only been fed speech-classified frames, with a callback: then every
\* emission is a max-length one; and, for frames of MaxFrameLen samples each,
\* in terms of the positions of the samples in the input.
C37_SplitRestartsDebounce ==
    (clean /\ heard = calls) =>
        /\ last.ncb = 1 =>
              (~IsInSpeech /\ speech_frames_ = 0 /\ silence_frames_ = 0 /\ GetBufferSize = 0)
        /\ fed = calls * MaxFrameLen =>
              /\ \A j \in 1..Len(segments) :
                    LET prev_end == IF j = 1 THEN 0
                                    ELSE segments[j - 1][Len(segments[j - 1])]
                    IN  /\ segments[j] # <<>>
                        /\ segments[j][1] =
                              prev_end + (config_.min_speech_frames - 1) * MaxFrameLen + 1
              /\ \A j \in 1..(Len(segments) - 1) :
                    (segments[j + 1][1] = segments[j][Len(segments[j])] + 1)
                       <=> config_.min_speech_frames <= 1

\* with min_speech_frames = 2, four speech frames: the second and the fourth
\* were emitted as max-length segments, the first and the third are in none
C37_Witness ==
    /\ clean /\ heard = calls /\ calls = 4
    /\ fed = calls * MaxFrameLen
    /\ config_.min_speech_frames = 2
    /\ Len(segments) = 2
    /\ segments[2][1] = 3 * MaxFrameLen + 1

(* Claims about the probability a Process call leaves behind, and whole frames *)

\* the average of one frame's per-channel scores
MeanOf(scores) == [num |-> TotalVadProb(scores, Len(scores)), den |-> Len(scores)]

\* C38: GetVADProbability() after a Process call reflects only the last frame
\* completed in or before that call: a call that completes no frame leaves
\* the value as it was before the call, and a call that completes several
\* frames leaves the average of the last frame's scores, whatever the earlier
\* frames of the call scored.
C38_OnlyLastFrameObservable ==
    /\ []((valid /\ enable_vad /\ status = "ok" /\ call_scores # <<>>) =>
             last_vad_prob_ = MeanOf(call_scores[Len(call_scores)]))
    /\ [][ (status' = "ok" /\ call_scores' = <<>>) => last_vad_prob_' = last_vad_prob_ ]_vars

\* one call completed two frames, the first scoring 100 and the second 0, and
\* the probability is 0; the call after it completed no frame
C38_Witness ==
    /\ valid /\ enable_vad /\ status = "ok"
    /\ Len(call_scores) = 2
    /\ call_scores[1] = <<100>> /\ call_scores[2] = <<0>>
    /\ last_vad_prob_ = [num |-> 0, den |-> 1]

(* The stage handed whole frames: RNNoiseProcessorTest.Process_StereoSamples *)
(* and Process_MultipleFrames, with calls of one sample in between           *)

MaxWholeFrames == 2

WholeInitialize ==
    /\ inits = 0
    /\ \E channels \in 1..MaxChannels : Initialize(48000, channels, channels)
    /\ UNCHANGED <<segVars, extVars>>

WholeProcess ==
    /\ ops < MaxOps /\ Usable
    /\ initialized
    /\ \E num_samples \in {1} \cup {k * FrameTotalSize : k \in 1..MaxWholeFrames} :
          \E scores \in ScoreChoices :
             Process(num_samples, [k \in 1..FramesCompleted(num_samples) |-> scores])
    /\ UNCHANGED <<segVars, extVars>>

WholeStageReset ==
    /\ ops < MaxOps /\ Usable
    /\ initialized
    /\ StageReset(channels_)
    /\ UNCHANGED <<segVars, extVars>>

NextWholeFrames == WholeInitialize \/ WholeProcess \/ WholeStageReset

SpecWholeFrames == InitStage /\ [][NextWholeFrames]_vars

\* the model's output for time slot `slot` of channel `ch` of the buffer `input`,
\* as the stage hands it back
ModelOutput(input, slot, ch) == ToInt16(Denoise(ToFloat(input[slot * channels_ + ch + 1])))

\* C39: when the cursor is 0 and count is a multiple of frame_size * channels,
\* Process runs the model count / (frame_size * channels) times per channel,
\* on the consecutive blocks of the input in input order, and afterwards
\* every position i of the caller's buffer holds the model's output for time
\* slot (i div channels) of channel (i mod channels) of the input; the cursor
\* is 0 again.
C39_WholeFramesInPlace ==
    [][ ( /\ initialized /\ ~reset_failed
          /\ rebuffer_pos_ = 0 /\ FrameTotalSize > 0
          /\ streamed' > streamed
          /\ (streamed' - streamed) % FrameTotalSize = 0 )
        => LET count == streamed' - streamed
               frames == count \div FrameTotalSize
           IN  /\ status' = "ok"
               /\ rebuffer_pos_' = 0
               /\ Len(handed') = Len(handed) + frames
               /\ \A j \in 1..frames :
                     handed'[Len(handed) + j] =
                        [i \in 1..FrameTotalSize |-> ToFloat(given'[(j - 1) * FrameTotalSize + i])]
               /\ Len(call_scores') = frames
               /\ \A j \in 1..frames : Len(call_scores'[j]) = channels_
               /\ Len(samples') = count
               /\ \A i \in 0..(count - 1) :
                     samples'[i + 1] = ModelOutput(given', i \div channels_, i % channels_)
      ]_vars

\* a stereo stage whose cursor was 0 has been handed two whole frames in one
\* call: the model ran twice per channel and the cursor is 0 again
C39_Witness ==
    /\ initialized /\ status = "ok"
    /\ channels_ = 2
    /\ Len(samples) = 2 * FrameTotalSize
    /\ Len(call_scores) = 2
    /\ rebuffer_pos_ = 0
    /\ samples[2] = ModelOutput(given, 0, 1)

----------------------------------------------------------------------------
(* AudioProcessorChain, with a volume normalizer, a high-pass filter and    *)
(* the RNNoise stage as its members                                         *)

StageKinds == {"normalizer", "highpass", "denoiser"}

MaxStages == 3
MaxChainCalls == 3

\* VolumeNormalizer(0.5f): the target level, over 32768
TargetLevel == 16384

Abs(x) == IF x < 0 THEN -x ELSE x

\* the largest magnitude in a buffer
PeakOf(buf) ==
    IF buf = <<>> THEN 0
    ELSE CHOOSE m \in {Abs(buf[i]) : i \in 1..Len(buf)} :
            \A i \in 1..Len(buf) : Abs(buf[i]) <= m

\* VolumeNormalizer::Process: the buffer scaled so that its peak is the target level
Normalize(buf) ==
    IF PeakOf(buf) = 0 THEN buf
    ELSE [i \in 1..Len(buf) |-> (buf[i] * TargetLevel) \div PeakOf(buf)]

\* HighPassFilter::Process: what stays the same from one sample to the next is removed
HighPass(buf) == [i \in 1..Len(buf) |-> buf[i] - (IF i = 1 THEN 0 ELSE buf[i - 1])]

\* Process of a stage that is not the RNNoise stage
StageProcess(kind, buf) == IF kind = "normalizer" THEN Normalize(buf) ELSE HighPass(buf)

\* a chain that calls its stages last to first
ProcessOrder_Reversed(n) == [k \in 1..n |-> n + 1 - k]

\* the order the chain calls its stages in: insertion order
ProcessOrder(n) == [k \in 1..n |-> k]

\* a chain that reports success when any of the stages it called succeeded
ChainResult_AnyStage(results) == \E k \in 1..Len(results) : results[k]

\* the chain's Initialize fails if any stage it called failed
ChainResult(results) == \A k \in 1..Len(results) : results[k]

\* where the RNNoise stage comes in a call order, 0 if it is not in the chain
DenoiserAt(order) ==
    IF \E k \in 1..Len(order) : processors_[order[k]] = "denoiser"
    THEN CHOOSE k \in 1..Len(order) : processors_[order[k]] = "denoiser"
    ELSE 0

RECURSIVE ApplyStages(_, _, _, _)
\* the buffer after the stages order[from], ..., order[to], none of them the RNNoise stage
ApplyStages(buf, order, from, to) ==
    IF from > to THEN buf
    ELSE ApplyStages(StageProcess(processors_[order[from]], buf), order, from + 1, to)

\* AudioProcessorChain::AddProcessor
AddProcessor(kind) ==
    /\ processors_' = Append(processors_, kind)
    /\ chain_status' = "added"
    /\ UNCHANGED <<chain_calls, chain_in, chain_out, chain_ops>>

\* AudioProcessorChain::Initialize: the stages in insertion order, stopping at
\* the first that fails; only the RNNoise stage can fail
ChainInitialize(sample_rate, channels, fail_at) ==
    LET n == Len(processors_)
        order == ProcessOrder(n)
        d == DenoiserAt(order)
    IN  /\ IF d > 0 THEN Initialize(sample_rate, channels, fail_at) ELSE UNCHANGED rnVars
        /\ LET results == [k \in 1..n |-> (k # d \/ status' = "true")]
               stop == IF d > 0 /\ ~results[d] THEN d ELSE n
           IN  /\ chain_calls' = SubSeq(order, 1, stop)
               /\ chain_status' = IF ChainResult(SubSeq(results, 1, stop)) THEN "true" ELSE "false"
        /\ chain_ops' = chain_ops + 1
        /\ UNCHANGED <<processors_, chain_in, chain_out>>

\* AudioProcessorChain::Process on the caller's buffer `input`: every stage
\* on what the stage before it left in the buffer
ChainProcessBuffer(input, scores) ==
    LET n == Len(processors_)
        order == ProcessOrder(n)
        d == DenoiserAt(order)
    IN  /\ IF d > 0
           THEN /\ ProcessBuffer(ApplyStages(input, order, 1, d - 1), scores)
                /\ chain_out' = ApplyStages(samples', order, d + 1, n)
           ELSE /\ UNCHANGED rnVars
                /\ chain_out' = ApplyStages(input, order, 1, n)
        /\ chain_in' = input
        /\ chain_calls' = order
        /\ chain_status' = "processed"
        /\ chain_ops' = chain_ops + 1
        /\ UNCHANGED processors_

\* the chain's Initialize has returned true and no Initialize has returned false since
ChainReady == chain_status \in {"true", "processed"}

InitChain ==
    /\ SegmenterNew(ScenarioConfig)
    /\ StageNew([enable_vad |-> TRUE])
    /\ Build(TRUE)
    /\ ChainNew /\ RecorderNew /\ RingNew(1)

\* the rates the chain is initialized at in tests/integration/test_audio_pipeline.cpp
ChainRates == {8000, 48000}

CallAddProcessor ==
    /\ chain_status \in {"new", "added"}
    /\ Len(processors_) < MaxStages
    /\ \E kind \in StageKinds :
          /\ kind = "denoiser" => \A i \in 1..Len(processors_) : processors_[i] # "denoiser"
          /\ AddProcessor(kind)
    /\ UNCHANGED <<segVars, rnVars, recVars, ringVars>>

CallChainInitialize ==
    /\ chain_ops < MaxChainCalls
    /\ \E sample_rate \in ChainRates, channels \in 1..MaxChannels :
          \E fail_at \in {0, channels} : ChainInitialize(sample_rate, channels, fail_at)
    /\ UNCHANGED <<segVars, recVars, ringVars>>

CallChainProcess ==
    /\ chain_ops < MaxChainCalls
    /\ ChainReady
    /\ \E num_samples \in {1, FrameSize} :
          \E scores \in CallScores(num_samples) :
             ChainProcessBuffer(Capture(streamed, num_samples), scores)
    /\ UNCHANGED <<segVars, recVars, ringVars>>

NextChain == CallAddProcessor \/ CallChainInitialize \/ CallChainProcess

SpecChain == InitChain /\ [][NextChain]_vars

(* Claims about the chain *)

\* the result of stage i's Initialize in the chain's last Initialize
StageResult(i) == processors_[i] # "denoiser" \/ status = "true"

\* C31: the chain's Initialize calls Initialize on its stages in insertion
\* order and returns false, without an exception, if a stage's Initialize
\* returned false, and true if all of them returned true; a chain holding the
\* denoiser fails at 8000 Hz and a chain of one normalizer succeeds.
C31_ChainInitializePropagates ==
    /\ [](chain_status \in {"true", "false"} =>
           /\ Len(chain_calls) <= Len(processors_)
           /\ \A k \in 1..Len(chain_calls) : chain_calls[k] = k
           /\ chain_status = "false" <=> (\E k \in 1..Len(chain_calls) : ~StageResult(k))
           /\ chain_status = "true" =>
                 (Len(chain_calls) = Len(processors_)
                    /\ \A i \in 1..Len(processors_) : StageResult(i))
           /\ processors_ = <<"normalizer">> => chain_status = "true")
    /\ [][ \A channels \in 1..MaxChannels : \A fail_at \in {0, channels} :
              (ChainInitialize(8000, channels, fail_at) /\ DenoiserAt(ProcessOrder(Len(processors_))) > 0)
                 => chain_status' = "false"
       ]_vars

\* the test's chain, a normalizer and then the denoiser, has been initialized
\* at 8000 Hz: both stages were called and the chain returned false
C31_Witness ==
    /\ processors_ = <<"normalizer", "denoiser">>
    /\ chain_status = "false"
    /\ chain_calls = <<1, 2>>
    /\ sample_rate_ = 8000

RECURSIVE ComposedUpTo(_)
\* what stage k of the chain made of the output of stage k - 1, the first
\* stage working on the caller's input
ComposedUpTo(k) ==
    IF k = 0 THEN chain_in
    ELSE IF processors_[k] = "denoiser" THEN samples
    ELSE StageProcess(processors_[k], ComposedUpTo(k - 1))

\* C32: the chain's Process calls every stage's Process exactly once, in
\* insertion order, each stage on the output of the one before it, so the
\* buffer it returns is the composition of the stages in the order they were
\* added.
C32_ChainProcessComposes ==
    chain_status = "processed" =>
        /\ chain_calls = [k \in 1..Len(processors_) |-> k]
        /\ \A k \in 1..Len(processors_) :
              processors_[k] = "denoiser" => given = ComposedUpTo(k - 1)
        /\ chain_out = ComposedUpTo(Len(processors_))

\* the chain of record_audio (high-pass, RNNoise, normalize) has processed a
\* buffer that completed a frame, and the two outer stages do not commute on it
C32_Witness ==
    /\ processors_ = <<"highpass", "denoiser", "normalizer">>
    /\ chain_status = "processed"
    /\ Len(call_scores) = 1
    /\ Normalize(HighPass(chain_in)) # HighPass(Normalize(chain_in))
    /\ chain_out = Normalize(samples)

----------------------------------------------------------------------------
(* record_audio, apps/cli/main.cpp:218-400: the chain is built from the     *)
(* command line, initialized, and the capture device is started with a      *)
(* callback that runs on the capture thread.                                *)

\* the 256 frames per buffer the device is opened with, scaled down
DeviceFrames == 1
\* process_buffer.resize(256 * channels * 4)
ProcessBufferFactor == 4
MaxCallbacks == 2

\* lines 240-242 and 288-308: has_processing, and the stages in the order
\* high-pass, RNNoise, normalize
RecordOptions(enable_highpass, enable_rnnoise, enable_normalize, fmt) ==
    /\ rec_state = "setup"
    /\ rec_state' = "built"
    /\ has_processing' = (enable_normalize \/ enable_highpass \/ enable_rnnoise)
    /\ format' = fmt
    /\ processors_' = (IF enable_highpass THEN <<"highpass">> ELSE <<>>)
                        \o (IF enable_rnnoise THEN <<"denoiser">> ELSE <<>>)
                        \o (IF enable_normalize THEN <<"normalizer">> ELSE <<>>)
    /\ chain_status' = IF has_processing' THEN "added" ELSE "new"
    /\ UNCHANGED <<chain_calls, chain_in, chain_out, chain_ops, process_buffer, file_samples,
                   total_samples, callbacks, cb_effects>>
    /\ UNCHANGED <<segVars, rnVars, ringVars>>

\* lines 310-333: the chain is initialized, the device opened and the buffer sized
RecordInitialize(sample_rate, channels) ==
    /\ rec_state = "built"
    /\ IF has_processing
       THEN /\ ChainInitialize(sample_rate, channels, channels)
            /\ rec_state' = IF chain_status' = "true" THEN "recording" ELSE "failed"
            /\ process_buffer' = IF chain_status' = "true"
                                 THEN DeviceFrames * channels * ProcessBufferFactor
                                 ELSE process_buffer
       ELSE /\ rec_state' = "recording"
            /\ UNCHANGED <<chainVars, rnVars, process_buffer>>
    /\ UNCHANGED <<has_processing, format, file_samples, total_samples, callbacks, cb_effects>>
    /\ UNCHANGED <<segVars, ringVars>>

\* lines 336-358: the lambda handed to capture.Start, run by the capture thread
CaptureCallback(num_samples, scores) ==
    /\ rec_state = "recording"
    /\ IF has_processing
       THEN /\ process_buffer' = IF process_buffer < num_samples THEN num_samples
                                 ELSE process_buffer
            /\ ChainProcessBuffer(Capture(streamed, num_samples), scores)
       ELSE UNCHANGED <<process_buffer, chainVars, rnVars>>
    /\ file_samples' = file_samples + num_samples
    /\ total_samples' = total_samples + num_samples
    /\ callbacks' = callbacks + 1
    /\ cb_effects' = {"file write"}
                       \cup (IF has_processing THEN {"copy", "chain.Process"} ELSE {})
                       \cup (IF has_processing /\ process_buffer < num_samples
                             THEN {"allocate"} ELSE {})
    /\ UNCHANGED <<rec_state, has_processing, format>>
    /\ UNCHANGED <<segVars, ringVars>>

InitRecord ==
    /\ SegmenterNew(ScenarioConfig)
    /\ \E config \in StageConfigs : StageNew(config)
    /\ Build(TRUE)
    /\ ChainNew /\ RecorderNew /\ RingNew(1)

CallRecordOptions ==
    \E enable_highpass \in BOOLEAN, enable_rnnoise \in BOOLEAN, enable_normalize \in BOOLEAN :
       \E fmt \in {"wav", "flac"} :
          RecordOptions(enable_highpass, enable_rnnoise, enable_normalize, fmt)

CallRecordInitialize ==
    \E sample_rate \in ChainRates, channels \in 1..MaxChannels :
       RecordInitialize(sample_rate, channels)

CallCaptureCallback ==
    /\ callbacks < MaxCallbacks
    /\ \E num_samples \in {DeviceFrames, FrameSize, DeviceFrames * MaxChannels * ProcessBufferFactor + 1} :
          \E scores \in (IF has_processing /\ DenoiserAt(ProcessOrder(Len(processors_))) > 0
                         THEN ScoreChoices ELSE {NoScores}) :
             CaptureCallback(num_samples, [k \in 1..FramesCompleted(num_samples) |-> scores])

NextRecord == CallRecordOptions \/ CallRecordInitialize \/ CallCaptureCallback

SpecRecord == InitRecord /\ [][NextRecord]_vars

\* C35: the capture callback never blocks, allocates, locks or performs I/O:
\* all it does is hand the captured frames to the ring buffer, the chain's
\* Process and the file writes being the work of another thread.
C35_CallbackOnlyHandsOff ==
    callbacks > 0 =>
        /\ cb_effects \cap {"allocate", "file write", "chain.Process"} = {}
        /\ "ring push" \in cb_effects

----------------------------------------------------------------------------
(* RingBuffer<T>: a producer thread that pushes 1, 2, ... and retries a     *)
(* push that failed, and a consumer thread that pops until the producer has *)
(* finished and a pop finds the buffer empty                                *)
(* (RingBufferTest.ConcurrentSingleProducerSingleConsumer).  An element is  *)
(* stored and loaded in two halves, so that a torn element can be seen.     *)

MaxCapacity == 2
MaxPushes == 4

\* size()
RingSize == write_pos_ - read_pos_

\* a buffer that keeps one slot free
IsFull_OneSlotSpare(size) == size >= capacity_ - 1

\* full(): size() == capacity()
IsFull(size) == size >= capacity_

\* empty()
IsEmpty(size) == size = 0

\* a push that publishes the element before it is stored
PushSteps_PublishFirst == <<"publish", "lo", "hi">>

\* what push does once it has found room: store the element, then publish it
PushSteps == <<"lo", "hi", "publish">>

\* what pop does once it has found an element: load it, then release the slot
PopSteps == <<"lo", "hi", "release">>

\* push(value), up to its check of the positions
PushCheck ==
    /\ p_pc = 0
    /\ Len(pushed) < MaxPushes
    /\ p_value' = Len(pushed) + 1
    /\ IF IsFull(RingSize)
       THEN /\ push_result' = "false"
            /\ p_pc' = 0
       ELSE /\ push_result' = "none"
            /\ p_pc' = 1
    /\ UNCHANGED <<capacity_, slots_, write_pos_, read_pos_, c_pc, c_out, pushed, popped,
                   pop_result, drained>>

\* one more step of a push that found room; the last one returns true
PushStep ==
    /\ p_pc > 0
    /\ LET slot == Len(pushed) % capacity_
       IN  /\ slots_' = IF PushSteps[p_pc] = "publish" THEN slots_
                        ELSE [slots_ EXCEPT ![slot][PushSteps[p_pc]] = p_value]
           /\ write_pos_' = IF PushSteps[p_pc] = "publish" THEN write_pos_ + 1 ELSE write_pos_
    /\ IF p_pc = Len(PushSteps)
       THEN /\ p_pc' = 0
            /\ push_result' = "true"
            /\ pushed' = Append(pushed, p_value)
       ELSE /\ p_pc' = p_pc + 1
            /\ UNCHANGED <<push_result, pushed>>
    /\ UNCHANGED <<capacity_, read_pos_, p_value, c_pc, c_out, popped, pop_result, drained>>

\* pop(out), up to its check of the positions
PopCheck ==
    /\ c_pc = 0
    /\ ~drained
    /\ IF IsEmpty(RingSize)
       THEN /\ pop_result' = "false"
            /\ c_pc' = 0
            /\ drained' = (Len(pushed) = MaxPushes /\ p_pc = 0)
       ELSE /\ pop_result' = "none"
            /\ c_pc' = 1
            /\ UNCHANGED drained
    /\ UNCHANGED <<capacity_, slots_, write_pos_, read_pos_, p_pc, p_value, c_out, pushed,
                   popped, push_result>>

\* one more step of a pop that found an element; the last one returns true
PopStep ==
    /\ c_pc > 0
    /\ LET slot == Len(popped) % capacity_
       IN  /\ c_out' = IF PopSteps[c_pc] = "release" THEN c_out
                       ELSE [c_out EXCEPT ![PopSteps[c_pc]] = slots_[slot][PopSteps[c_pc]]]
           /\ read_pos_' = IF PopSteps[c_pc] = "release" THEN read_pos_ + 1 ELSE read_pos_
    /\ IF c_pc = Len(PopSteps)
       THEN /\ c_pc' = 0
            /\ pop_result' = "true"
            /\ popped' = Append(popped, c_out')
       ELSE /\ c_pc' = c_pc + 1
            /\ UNCHANGED <<pop_result, popped>>
    /\ UNCHANGED <<capacity_, slots_, write_pos_, p_pc, p_value, pushed, push_result, drained>>

InitRing ==
    /\ SegmenterNew(ScenarioConfig)
    /\ IdleStage
    /\ ChainNew /\ RecorderNew
    /\ \E capacity \in 1..MaxCapacity : RingNew(capacity)

\* what the ring buffer's threads leave alone
RingOnly == UNCHANGED <<segVars, rnVars, chainVars, recVars>>

ProducerCheck == PushCheck /\ RingOnly

ProducerStep == PushStep /\ RingOnly

ConsumerCheck == PopCheck /\ RingOnly

ConsumerStep == PopStep /\ RingOnly

NextRing == ProducerCheck \/ ProducerStep \/ ConsumerCheck \/ ConsumerStep

SpecRing == InitRing /\ [][NextRing]_vars

(* Claims about the ring buffer *)

\* C33: with one producer and one consumer running concurrently, the values
\* popped are always a prefix of the values pushed (in order, across
\* wrap-around, none lost, duplicated or torn), and once the producer has
\* finished and the consumer has drained, the buffer is empty and as many
\* pops as pushes have succeeded.
C33_PoppedIsPrefixOfPushed ==
    /\ Len(popped) <= Len(pushed)
    /\ \A i \in 1..Len(popped) : popped[i] = [lo |-> pushed[i], hi |-> pushed[i]]
    /\ drained => (RingSize = 0 /\ Len(popped) = Len(pushed) /\ Len(pushed) = MaxPushes)

\* both threads are inside the buffer, the producer storing an element in a
\* slot it has used before while the consumer loads another one
C33_Witness ==
    /\ p_pc > 0 /\ c_pc > 0
    /\ Len(pushed) >= capacity_
    /\ Len(popped) >= 1
    /\ capacity_ = MaxCapacity

\* C34: a push on a buffer that holds capacity() elements returns false at
\* once and changes nothing; a pop on an empty buffer returns false and
\* leaves its output parameter as it was; 0 <= size() <= capacity() always;
\* and a push made when fewer than capacity() elements are held, so also the
\* first one after a pop from a full buffer of capacity 1, finds room.
C34_RingBounds ==
    /\ [](0 <= RingSize /\ RingSize <= capacity_)
    /\ [][ (PushCheck /\ RingSize = capacity_) =>
              (push_result' = "false" /\ p_pc' = 0
                 /\ UNCHANGED <<slots_, write_pos_, read_pos_, pushed>>) ]_vars
    /\ [][ (PopCheck /\ RingSize = 0) =>
              (pop_result' = "false" /\ c_pc' = 0
                 /\ UNCHANGED <<c_out, slots_, write_pos_, read_pos_, popped>>) ]_vars
    /\ [][ (PushCheck /\ RingSize < capacity_) => (p_pc' = 1 /\ push_result' # "false") ]_vars
    /\ [](p_pc > 0 => RingSize < capacity_)

\* a buffer of capacity 1 was filled by one push and emptied by one pop, and
\* the push after that has gone in
C34_Witness ==
    /\ capacity_ = 1
    /\ Len(popped) = 1
    /\ Len(pushed) = 2
    /\ push_result = "true"
    /\ RingSize = 1

====
